---- MODULE Spec2Model ----
(***************************************************************************)
(* FortiGate MCP server: the device registry (FortiGateManager) and the    *)
(* per-device request pipeline (FortiGateAPI) of core/fortigate.py.        *)
(*                                                                         *)
(* Python values are modelled as follows.                                  *)
(*   Optional[T]   a sequence of length 0 (None) or 1 (the value)          *)
(*   dict          a function; the registry dict also keeps its insertion  *)
(*                 order in devices_order                                  *)
(*   exceptions    a result record [kind |-> "raise", exc |-> class, ...]  *)
(*   JSON values   tagged records [t |-> type, v |-> value]; JSON strings  *)
(*                 are sequences of characters so that the Python `in`     *)
(*                 (substring) test can be computed                        *)
(*   endpoints     sequences of path segments ("a/b" is <<"a","b">>, a     *)
(*                 leading "/" is a leading empty segment)                 *)
(***************************************************************************)
EXTENDS Integers, Sequences, FiniteSets, TLC

VARIABLES devices, devices_order, next_oid, removed, last

vars == <<devices, devices_order, next_oid, removed, last>>

(***************************************************************************)
(* Bounds of the model.                                                    *)
(***************************************************************************)
\* number of FortiGateAPI objects constructed in one run
MaxObjects == 3
\* number of device identifiers that operations can name
MaxDevices == 2
\* number of entries of the static device configuration of a started server
MaxStatic == 2
\* number of entries of the static device configuration in bulk construction
MaxBulk == 3

(***************************************************************************)
(* Python helpers.                                                         *)
(***************************************************************************)
None == << >>

Some(x) == <<x>>

\* truth value of an Optional[str]: None and "" are falsy
Truthy(o) == o # None /\ o[1] # ""

\* Python `a or b` on an Optional[str] and a str
OrElse(o, d) == IF Truthy(o) THEN o[1] ELSE d

\* a call that returns v (as opposed to one that raises)
Returned(v) == [kind |-> "return", value |-> v]

Range(s) == {s[i] : i \in 1..Len(s)}

RECURSIVE Join(_, _)
Join(parts, sep) ==
    IF parts = << >> THEN ""
    ELSE IF Len(parts) = 1 THEN parts[1]
    ELSE parts[1] \o sep \o Join(Tail(parts), sep)

\* the sequence s without the value x
Without(s, x) == SelectSeq(s, LAMBDA y : y # x)

(***************************************************************************)
(* Inputs: device identifiers and device configurations.                   *)
(***************************************************************************)
DeviceId(i) == "d" \o ToString(i)

DeviceIds == {DeviceId(i) : i \in 1..MaxDevices}

\* the three encodings of an optional credential: absent, empty, present
TokenValues == {None, Some(""), Some("tok")}
UsernameValues == {None, Some(""), Some("admin")}
PasswordValues == {None, Some(""), Some("pw")}

\* FortiGateDeviceConfig(...) as add_device builds it
FortiGateDeviceConfig(host, port, username, password, api_token, vdom, verify_ssl, timeout) ==
    [host |-> host, port |-> port, username |-> username, password |-> password,
     api_token |-> api_token, vdom |-> vdom, verify_ssl |-> verify_ssl,
     timeout |-> timeout]

\* connection parameters: the defaults of add_device and one non-default set
ConnectionParams ==
    { [host |-> "10.0.0.1", port |-> 443, vdom |-> "root", verify_ssl |-> FALSE, timeout |-> 30],
      [host |-> "fw.example", port |-> 8443, vdom |-> "vd1", verify_ssl |-> TRUE, timeout |-> 5] }

Credentials ==
    { [api_token |-> t, username |-> u, password |-> p] :
        t \in TokenValues, u \in UsernameValues, p \in PasswordValues }

(***************************************************************************)
(* FortiGateAPI.__init__                                                   *)
(***************************************************************************)
InvalidConfig(device_id) ==
    [kind |-> "raise", exc |-> "ValueError",
     message |-> "Device " \o device_id
                 \o ": Either api_token or username/password must be provided"]

BaseHeaders ==
    [h \in {"Content-Type", "Accept"} |-> "application/json"]

base_url_of(config) ==
    "https://" \o config.host \o ":" \o ToString(config.port) \o "/api/v2"

\* auth_method swapped: a token config yields basic and the reverse
FortiGateAPI_swapped(oid, device_id, config) ==
    IF Truthy(config.api_token) THEN
        [kind |-> "return",
         value |-> [oid |-> oid, device_id |-> device_id, config |-> config,
                    base_url |-> base_url_of(config),
                    headers |-> BaseHeaders,
                    auth_method |-> "basic",
                    basic_auth |-> Some(<<config.api_token[1], ""  >>)]]
    ELSE IF Truthy(config.username) /\ Truthy(config.password) THEN
        [kind |-> "return",
         value |-> [oid |-> oid, device_id |-> device_id, config |-> config,
                    base_url |-> base_url_of(config),
                    headers |-> BaseHeaders @@
                        ("Authorization" :> ("Bearer " \o config.password[1])),
                    auth_method |-> "token",
                    basic_auth |-> None]]
    ELSE
        InvalidConfig(device_id)

\* the username and password are looked at before the token
FortiGateAPI_pair_first(oid, device_id, config) ==
    IF Truthy(config.username) /\ Truthy(config.password) THEN
        [kind |-> "return",
         value |-> [oid |-> oid, device_id |-> device_id, config |-> config,
                    base_url |-> base_url_of(config),
                    headers |-> BaseHeaders,
                    auth_method |-> "basic",
                    basic_auth |-> Some(<<config.username[1], config.password[1]>>)]]
    ELSE IF Truthy(config.api_token) THEN
        [kind |-> "return",
         value |-> [oid |-> oid, device_id |-> device_id, config |-> config,
                    base_url |-> base_url_of(config),
                    headers |-> BaseHeaders @@
                        ("Authorization" :> ("Bearer " \o config.api_token[1])),
                    auth_method |-> "token",
                    basic_auth |-> None]]
    ELSE
        InvalidConfig(device_id)

\* FortiGateAPI(device_id, config): the new object (oid is its identity), or
\* the ValueError of a config without usable credentials
FortiGateAPI(oid, device_id, config) ==
    IF Truthy(config.api_token) THEN
        [kind |-> "return",
         value |-> [oid |-> oid, device_id |-> device_id, config |-> config,
                    base_url |-> base_url_of(config),
                    headers |-> BaseHeaders @@
                        ("Authorization" :> ("Bearer " \o config.api_token[1])),
                    auth_method |-> "token",
                    basic_auth |-> None]]
    ELSE IF Truthy(config.username) /\ Truthy(config.password) THEN
        [kind |-> "return",
         value |-> [oid |-> oid, device_id |-> device_id, config |-> config,
                    base_url |-> base_url_of(config),
                    headers |-> BaseHeaders,
                    auth_method |-> "basic",
                    basic_auth |-> Some(<<config.username[1], config.password[1]>>)]]
    ELSE
        InvalidConfig(device_id)

EmptyParams == [k \in {} |-> ""]

(***************************************************************************)
(* JSON documents and response bodies.  A body is its text together with   *)
(* what response.json() gives for it: Some(document), or None when the     *)
(* decoder raises JSONDecodeError.                                         *)
(***************************************************************************)
JStr(chars) == [t |-> "str", v |-> chars]
JNum(n) == [t |-> "num", v |-> n]
JNull == [t |-> "null"]
JObj(f) == [t |-> "obj", v |-> f]
JArr(items) == [t |-> "arr", v |-> items]

ErrorChars == <<"e", "r", "r", "o", "r">>
DeniedChars == <<"p", "e", "r", "m", "i", "s", "s", "i", "o", "n", " ",
                 "d", "e", "n", "i", "e", "d">>

\* needle occurs in hay as a contiguous subsequence
IsSubSeq(needle, hay) ==
    \E i \in 0..(Len(hay) - Len(needle)) :
        \A j \in 1..Len(needle) : hay[i + j] = needle[j]

\* str(value) of a decoded JSON scalar, as an f-string renders it
PyStr(d) ==
    CASE d.t = "str" -> Join(d.v, "")
      [] d.t = "num" -> ToString(d.v)
      [] d.t = "null" -> "None"

\* Python `"error" in d`: "TypeError" where the operand is not a container
HasError(d) ==
    CASE d.t = "obj" -> IF "error" \in DOMAIN d.v THEN "yes" ELSE "no"
      [] d.t = "arr" -> IF \E i \in 1..Len(d.v) : d.v[i].t = "str" /\ d.v[i].v = ErrorChars
                        THEN "yes" ELSE "no"
      [] d.t = "str" -> IF IsSubSeq(ErrorChars, d.v) THEN "yes" ELSE "no"
      [] OTHER -> "TypeError"

Bodies ==
    { [text |-> "", json |-> None],
      [text |-> "<html>Forbidden</html>", json |-> None],
      [text |-> "{\"error\":\"permission denied\"}",
       json |-> Some(JObj("error" :> JStr(DeniedChars)))],
      [text |-> "{\"error\":-3,\"status\":\"error\"}",
       json |-> Some(JObj(("error" :> JNum(-3)) @@ ("status" :> JStr(ErrorChars))))],
      [text |-> "{\"status\":\"error\",\"http_status\":404}",
       json |-> Some(JObj(("status" :> JStr(ErrorChars)) @@ ("http_status" :> JNum(404))))],
      [text |-> "{\"results\":[{\"policyid\":1,\"name\":\"P\"}]}",
       json |-> Some(JObj("results" :>
                   JArr(<<JObj(("policyid" :> JNum(1)) @@ ("name" :> JStr(<<"P">>)))>>)))],
      [text |-> "[]", json |-> Some(JArr(<< >>))],
      [text |-> "[\"error\"]", json |-> Some(JArr(<<JStr(ErrorChars)>>))],
      [text |-> "\"permission denied\"", json |-> Some(JStr(DeniedChars))],
      [text |-> "\"error\"", json |-> Some(JStr(ErrorChars))],
      [text |-> "5", json |-> Some(JNum(5))],
      [text |-> "null", json |-> Some(JNull)] }

\* {"status": "success"}
StatusSuccess == JObj("status" :> JStr(<<"s", "u", "c", "c", "e", "s", "s">>))

StatusCodes == {200, 302, 399, 400, 403}

(***************************************************************************)
(* What httpx does with one client.request(...): it answers with a         *)
(* response, or raises.  DNS and TLS failures raise ConnectError, timeouts *)
(* ConnectTimeout or ReadTimeout, all subclasses of RequestError; a URL    *)
(* that cannot be parsed raises InvalidURL, which is no RequestError and   *)
(* is raised before anything is sent.                                      *)
(***************************************************************************)
Causes == {"dns", "tls", "connect_timeout", "read_timeout", "invalid_url"}

HttpxException(cause) ==
    CASE cause \in {"dns", "tls"} -> "ConnectError"
      [] cause = "connect_timeout" -> "ConnectTimeout"
      [] cause = "read_timeout" -> "ReadTimeout"
      [] cause = "invalid_url" -> "InvalidURL"

\* only connection errors are caught: a timeout leaves _make_request as raised
IsRequestError_connect_only(exc) == exc = "ConnectError"

\* line 147: the exceptions that `except httpx.RequestError` catches
IsRequestError(exc) == exc \in {"ConnectError", "ConnectTimeout", "ReadTimeout"}

Outcomes ==
    { [kind |-> "response", status_code |-> c, body |-> b] : c \in StatusCodes, b \in Bodies }
    \cup { [kind |-> "exception", cause |-> x, exc |-> HttpxException(x)] : x \in Causes }

(***************************************************************************)
(* FortiGateAPI._make_request                                              *)
(***************************************************************************)
\* endpoint.lstrip('/')
RECURSIVE lstrip(_)
lstrip(endpoint) ==
    IF endpoint # << >> /\ endpoint[1] = "" THEN lstrip(Tail(endpoint)) ELSE endpoint

\* the endpoint as the text it was given as
EndpointText(endpoint) == Join(endpoint, "/")

\* a dict given as Optional: None and the empty dict are falsy
DictTruthy(o) == o # None /\ DOMAIN o[1] # {}

\* params.setdefault("vdom", value): a vdom among the caller's own params stays
WithVdom_setdefault(params, value) ==
    [k \in (DOMAIN params) \cup {"vdom"} |-> IF k \in DOMAIN params THEN params[k] ELSE value]

\* params["vdom"] = value
WithVdom(params, value) ==
    [k \in (DOMAIN params) \cup {"vdom"} |-> IF k = "vdom" THEN value ELSE params[k]]

\* log_api_call(self.logger, method, endpoint, status_code, duration_ms); the
\* wall-clock duration is not modelled
log_api_call(method, endpoint, status_code) ==
    [method |-> method, endpoint |-> EndpointText(endpoint), status_code |-> status_code]

\* FortiGateAPIError(message, status_code, device_id)
FortiGateAPIError(message, status_code, device_id) ==
    [kind |-> "raise", exc |-> "FortiGateAPIError", message |-> message,
     status_code |-> status_code, device_id |-> device_id]

\* the raw body text is appended whatever the body is
error_msg_text(response) ==
    "API request failed: " \o ToString(response.status_code) \o " - " \o response.body.text

\* lines 126-132: the message of the error raised for a status >= 400
error_msg(response) ==
    LET prefix == "API request failed: " \o ToString(response.status_code)
        body == response.body
    IN  IF body.json = None THEN prefix \o " - " \o body.text
        ELSE LET error_data == body.json[1]
                 found == HasError(error_data)
             IN  IF found = "TypeError" THEN prefix \o " - " \o body.text
                 ELSE IF found = "no" THEN prefix
                 ELSE IF error_data.t = "obj"
                      THEN prefix \o " - " \o PyStr(error_data.v["error"])
                      ELSE prefix \o " - " \o body.text

\* the username and password go out whenever both are configured, next to
\* the bearer header of a session in token mode
BuildRequest_both(api, method, endpoint, params, data, vdom) ==
    [method |-> method,
     url |-> api.base_url \o "/" \o EndpointText(lstrip(endpoint)),
     headers |-> api.headers,
     params |-> WithVdom(IF DictTruthy(params) THEN params[1] ELSE EmptyParams,
                         OrElse(vdom, api.config.vdom)),
     json |-> IF DictTruthy(data) THEN data ELSE None,
     auth |-> IF Truthy(api.config.username) /\ Truthy(api.config.password)
              THEN Some(<<api.config.username[1], api.config.password[1]>>)
              ELSE None,
     verify |-> api.config.verify_ssl,
     timeout |-> api.config.timeout]

\* the request that client.request(...) sends
BuildRequest(api, method, endpoint, params, data, vdom) ==
    [method |-> method,
     url |-> api.base_url \o "/" \o EndpointText(lstrip(endpoint)),
     headers |-> api.headers,
     params |-> WithVdom(IF DictTruthy(params) THEN params[1] ELSE EmptyParams,
                         OrElse(vdom, api.config.vdom)),
     json |-> IF DictTruthy(data) THEN data ELSE None,
     auth |-> IF api.auth_method = "basic" THEN api.basic_auth ELSE None,
     verify |-> api.config.verify_ssl,
     timeout |-> api.config.timeout]

\* line 125: the statuses handled as errors
IsErrorStatus(status_code) == status_code >= 400

\* a body that does not decode raises out of _make_request
parse_response_strict(body) ==
    IF body.json # None THEN Returned(body.json[1])
    ELSE [kind |-> "raise", exc |-> "JSONDecodeError"]

\* lines 141-145: the value returned for a response that is no error
parse_response(body) ==
    IF body.json # None THEN Returned(body.json[1])
    ELSE Returned(StatusSuccess)

\* the record is written after the error check: none for a status >= 400
on_response_unlogged_error(api, method, endpoint, request, response) ==
    IF IsErrorStatus(response.status_code)
    THEN [sent |-> <<request>>,
          logs |-> << >>,
          result |-> FortiGateAPIError(error_msg(response), Some(response.status_code),
                                       Some(api.device_id))]
    ELSE [sent |-> <<request>>,
          logs |-> <<log_api_call(method, endpoint, Some(response.status_code))>>,
          result |-> parse_response(response.body)]

\* lines 121-145: httpx answered the request with a response
on_response(api, method, endpoint, request, response) ==
    [sent |-> <<request>>,
     logs |-> <<log_api_call(method, endpoint, Some(response.status_code))>>,
     result |-> IF IsErrorStatus(response.status_code)
                THEN FortiGateAPIError(error_msg(response), Some(response.status_code),
                                       Some(api.device_id))
                ELSE parse_response(response.body)]

\* the request is sent a second time before the failure is reported
on_request_error_retry(api, method, endpoint, request, exc) ==
    [sent |-> <<request, request>>,
     logs |-> <<log_api_call(method, endpoint, None)>>,
     result |-> FortiGateAPIError("Network error: " \o exc, None, Some(api.device_id))]

\* lines 147-153: client.request raised an httpx.RequestError
on_request_error(api, method, endpoint, request, exc) ==
    [sent |-> <<request>>,
     logs |-> <<log_api_call(method, endpoint, None)>>,
     result |-> FortiGateAPIError("Network error: " \o exc, None, Some(api.device_id))]

\* self._make_request(method, endpoint, params, data, vdom) when httpx answers
\* with outcome: the value returned or the exception raised (result), the
\* requests sent (sent) and the calls of log_api_call (logs).  An exception
\* that no except clause names leaves the function as it is.
make_request(api, method, endpoint, params, data, vdom, outcome) ==
    LET request == BuildRequest(api, method, endpoint, params, data, vdom)
    IN  IF outcome.kind = "response"
        THEN on_response(api, method, endpoint, request, outcome)
        ELSE IF IsRequestError(outcome.exc)
        THEN on_request_error(api, method, endpoint, request, outcome.exc)
        ELSE [sent |-> << >>, logs |-> << >>,
              result |-> [kind |-> "raise", exc |-> outcome.exc]]

get_system_status(api, vdom, outcome) ==
    make_request(api, "GET", <<"monitor", "system", "status">>, None, None, vdom, outcome)

\* only FortiGateAPIError is caught: any other exception leaves the function
test_connection_narrow(api, outcome) ==
    LET call == get_system_status(api, None, outcome)
    IN  [sent |-> call.sent, logs |-> call.logs,
         result |-> IF call.result.kind = "raise" /\ call.result.exc # "FortiGateAPIError"
                    THEN call.result
                    ELSE Returned(call.result.kind = "return")]

\* self.test_connection(): the boolean returned, with the requests and log
\* records of the call it wraps
test_connection(api, outcome) ==
    LET call == get_system_status(api, None, outcome)
    IN  [sent |-> call.sent, logs |-> call.logs,
         result |-> Returned(call.result.kind = "return")]

(***************************************************************************)
(* FortiGateManager: the registry.  A manager value m is the dict          *)
(* self.devices (m.devices with its insertion order m.order) and the       *)
(* identity the next constructed FortiGateAPI object gets.                 *)
(***************************************************************************)
EmptyDict == [k \in {} |-> None]

\* self.devices[device_id] = api
DictSet(m, device_id, api) ==
    [devices |-> [k \in (DOMAIN m.devices) \cup {device_id} |->
                     IF k = device_id THEN api ELSE m.devices[k]],
     order |-> IF device_id \in DOMAIN m.devices THEN m.order
               ELSE Append(m.order, device_id),
     next_oid |-> m.next_oid + 1]

\* the last key takes the place of the deleted one
DictDel_swap(m, device_id) ==
    [devices |-> [k \in (DOMAIN m.devices) \ {device_id} |-> m.devices[k]],
     order |-> LET moved == [i \in 1..Len(m.order) |->
                               IF m.order[i] = device_id THEN m.order[Len(m.order)]
                               ELSE m.order[i]]
               IN  SubSeq(moved, 1, Len(m.order) - 1),
     next_oid |-> m.next_oid]

\* del self.devices[device_id]
DictDel(m, device_id) ==
    [devices |-> [k \in (DOMAIN m.devices) \ {device_id} |-> m.devices[k]],
     order |-> Without(m.order, device_id),
     next_oid |-> m.next_oid]

NotFound(device_id) ==
    [kind |-> "raise", exc |-> "ValueError",
     message |-> "Device '" \o device_id \o "' not found"]

AlreadyExists(device_id) ==
    [kind |-> "raise", exc |-> "ValueError",
     message |-> "Device '" \o device_id \o "' already exists"]

\* the loop stops at the first device whose construction fails
RECURSIVE init_devices_abort(_, _)
init_devices_abort(items, m) ==
    IF items = << >> THEN m
    ELSE LET device_id == items[1][1]
             config == items[1][2]
             r == FortiGateAPI(m.next_oid, device_id, config)
         IN  IF r.kind = "return"
             THEN init_devices_abort(Tail(items), DictSet(m, device_id, r.value))
             ELSE m

\* the loop of FortiGateManager.__init__ over devices.items()
RECURSIVE init_devices(_, _)
init_devices(items, m) ==
    IF items = << >> THEN m
    ELSE LET device_id == items[1][1]
             config == items[1][2]
             r == FortiGateAPI(m.next_oid, device_id, config)
         IN  init_devices(Tail(items),
                          IF r.kind = "return" THEN DictSet(m, device_id, r.value)
                          ELSE m)

\* FortiGateManager(devices, auth_config); devices is given as its items()
FortiGateManager(items) ==
    init_devices(items, [devices |-> EmptyDict, order |-> << >>, next_oid |-> 0])

\* an identifier that is not registered resolves to the first session
get_device_fallback(m, device_id) ==
    IF device_id \in DOMAIN m.devices THEN Returned(m.devices[device_id])
    ELSE IF m.order = << >> THEN NotFound(device_id)
    ELSE Returned(m.devices[m.order[1]])

get_device(m, device_id) ==
    IF device_id \notin DOMAIN m.devices THEN NotFound(device_id)
    ELSE Returned(m.devices[device_id])

list_devices(m) == Returned(m.order)

\* the duplicate check is missing: the new session replaces the old one
add_device_overwrite(m, device_id, host, port, username, password, api_token, vdom, verify_ssl, timeout) ==
    LET device_config == FortiGateDeviceConfig(host, port, username, password,
                                               api_token, vdom, verify_ssl, timeout)
        r == FortiGateAPI(m.next_oid, device_id, device_config)
    IN  IF r.kind = "raise"
        THEN [m |-> m, result |-> r]
        ELSE [m |-> DictSet(m, device_id, r.value), result |-> Returned(None)]

\* a duplicate is refused, but the registered session is dropped
add_device_evict(m, device_id, host, port, username, password, api_token, vdom, verify_ssl, timeout) ==
    IF device_id \in DOMAIN m.devices
    THEN [m |-> DictDel(m, device_id), result |-> AlreadyExists(device_id)]
    ELSE LET device_config == FortiGateDeviceConfig(host, port, username, password,
                                                    api_token, vdom, verify_ssl, timeout)
             r == FortiGateAPI(m.next_oid, device_id, device_config)
         IN  IF r.kind = "raise"
             THEN [m |-> m, result |-> r]
             ELSE [m |-> DictSet(m, device_id, r.value), result |-> Returned(None)]

add_device(m, device_id, host, port, username, password, api_token, vdom, verify_ssl, timeout) ==
    IF device_id \in DOMAIN m.devices
    THEN [m |-> m, result |-> AlreadyExists(device_id)]
    ELSE LET device_config == FortiGateDeviceConfig(host, port, username, password,
                                                    api_token, vdom, verify_ssl, timeout)
             r == FortiGateAPI(m.next_oid, device_id, device_config)
         IN  IF r.kind = "raise"
             THEN [m |-> m, result |-> r]
             ELSE [m |-> DictSet(m, device_id, r.value), result |-> Returned(None)]

\* the membership check is missing: removing an absent device succeeds
remove_device_silent(m, device_id) ==
    [m |-> DictDel(m, device_id), result |-> Returned(None)]

remove_device(m, device_id) ==
    IF device_id \notin DOMAIN m.devices
    THEN [m |-> m, result |-> NotFound(device_id)]
    ELSE [m |-> DictDel(m, device_id), result |-> Returned(None)]

\* the manager held in the state variables
Manager == [devices |-> devices, order |-> devices_order, next_oid |-> next_oid]

SetManager(m) ==
    /\ devices' = m.devices
    /\ devices_order' = m.order
    /\ next_oid' = m.next_oid

(***************************************************************************)
(* Static configurations: the items() of a dict of device configs, that is *)
(* a sequence of <<identifier, config>> with distinct identifiers.         *)
(***************************************************************************)
\* credential forms of a registered device: token, basic, both, none, username only
RegistryCredentials ==
    { [api_token |-> Some("tok"), username |-> None, password |-> None],
      [api_token |-> None, username |-> Some("admin"), password |-> Some("pw")],
      [api_token |-> Some("tok"), username |-> Some("admin"), password |-> Some("pw")],
      [api_token |-> None, username |-> None, password |-> None],
      [api_token |-> None, username |-> Some("admin"), password |-> None] }

StaticDeviceConfigs ==
    { FortiGateDeviceConfig("10.0.0.1", 443, k.username, k.password, k.api_token,
                            "root", FALSE, 30) : k \in RegistryCredentials }

\* the sequences over S of length at most n
RECURSIVE SeqsUpTo(_, _)
SeqsUpTo(S, n) ==
    IF n = 0 THEN {<< >>}
    ELSE LET shorter == SeqsUpTo(S, n - 1)
         IN  shorter \cup {Append(s, x) : s \in {t \in shorter : Len(t) = n - 1}, x \in S}

DistinctKeys(items) ==
    \A i, j \in 1..Len(items) : items[i][1] = items[j][1] => i = j

StaticItems(ids, n) ==
    {items \in SeqsUpTo(ids \X StaticDeviceConfigs, n) : DistinctKeys(items)}

(***************************************************************************)
(* The registry as a state machine: a server started from a static         *)
(* configuration, then add_device, remove_device, get_device and           *)
(* list_devices in any order.  last records the latest call and its        *)
(* outcome; removed is the set of identifiers removed and not registered   *)
(* again since.                                                            *)
(***************************************************************************)
Started(ids, n) ==
    \E items \in StaticItems(ids, n) :
        LET m == FortiGateManager(items)
        IN  /\ devices = m.devices
            /\ devices_order = m.order
            /\ next_oid = m.next_oid
            /\ removed = {}
            /\ last = [op |-> "init", items |-> items]

Init == Started(DeviceIds, MaxStatic)

AddDeviceOf(ids, credentials) ==
    \E device_id \in ids, c \in ConnectionParams, k \in credentials :
        LET out == add_device(Manager, device_id, c.host, c.port, k.username, k.password,
                              k.api_token, c.vdom, c.verify_ssl, c.timeout)
        IN  /\ next_oid < MaxObjects
            /\ SetManager(out.m)
            /\ removed' = IF out.result.kind = "return" THEN removed \ {device_id}
                          ELSE removed
            /\ last' = [op |-> "add_device", device_id |-> device_id,
                        config |-> FortiGateDeviceConfig(c.host, c.port, k.username,
                                       k.password, k.api_token, c.vdom, c.verify_ssl,
                                       c.timeout),
                        result |-> out.result]

AddDevice == AddDeviceOf(DeviceIds, RegistryCredentials)

RemoveDeviceOf(ids) ==
    \E device_id \in ids :
        LET out == remove_device(Manager, device_id)
        IN  /\ SetManager(out.m)
            /\ removed' = IF out.result.kind = "return" THEN removed \cup {device_id}
                          ELSE removed
            /\ last' = [op |-> "remove_device", device_id |-> device_id,
                        result |-> out.result]

RemoveDevice == RemoveDeviceOf(DeviceIds)

GetDeviceOf(ids) ==
    \E device_id \in ids :
        /\ last' = [op |-> "get_device", device_id |-> device_id,
                    result |-> get_device(Manager, device_id)]
        /\ UNCHANGED <<devices, devices_order, next_oid, removed>>

GetDevice == GetDeviceOf(DeviceIds)

ListDevices ==
    /\ last' = [op |-> "list_devices", result |-> list_devices(Manager)]
    /\ UNCHANGED <<devices, devices_order, next_oid, removed>>

Next ==
    \/ AddDevice
    \/ RemoveDevice
    \/ GetDevice
    \/ ListDevices

Spec == Init /\ [][Next]_vars

(***************************************************************************)
(* Bulk construction: a manager built from a static configuration of up to *)
(* MaxBulk entries, then read.                                             *)
(***************************************************************************)
BulkIds == {DeviceId(i) : i \in 1..MaxBulk}

BulkInit == Started(BulkIds, MaxBulk)

BulkGetDevice == GetDeviceOf(BulkIds)

BulkNext ==
    \/ BulkGetDevice
    \/ ListDevices

SpecBulk == BulkInit /\ [][BulkNext]_vars

(***************************************************************************)
(* Construction: one identifier registered with every combination of       *)
(* credentials, removed and looked up.                                     *)
(***************************************************************************)
SessionId == DeviceId(1)

Unstarted == Started({SessionId}, 0)

Construct == AddDeviceOf({SessionId}, Credentials)

ConstructNext ==
    \/ Construct
    \/ RemoveDevice
    \/ GetDevice

SpecConstruct == Unstarted /\ [][ConstructNext]_vars

(***************************************************************************)
(* One session: a device registered with token, basic or both credentials, *)
(* then _make_request and test_connection on it, httpx answering each call *)
(* with any outcome.                                                       *)
(***************************************************************************)
Payload == "name" :> JStr(<<"P">>)

\* the arguments of _make_request: method, endpoint, params, data, vdom
Calls ==
    { [method |-> "GET", endpoint |-> <<"cmdb", "firewall", "policy">>,
       params |-> None, data |-> None, vdom |-> None],
      [method |-> "GET", endpoint |-> <<"", "cmdb", "firewall", "address">>,
       params |-> Some("filter" :> "name==a"), data |-> None, vdom |-> Some("vd2")],
      [method |-> "POST", endpoint |-> <<"cmdb", "firewall", "policy">>,
       params |-> Some(EmptyParams), data |-> Some(Payload), vdom |-> Some("")],
      [method |-> "PUT", endpoint |-> <<"cmdb", "firewall", "policy", "1">>,
       params |-> Some("vdom" :> "other"), data |-> Some(Payload), vdom |-> None],
      [method |-> "DELETE", endpoint |-> <<"cmdb", "router", "static", "2">>,
       params |-> None, data |-> Some(EmptyParams), vdom |-> Some("vd2")] }

Open == AddDeviceOf({SessionId}, RegistryCredentials)

Request ==
    \E device_id \in DOMAIN devices, c \in Calls, outcome \in Outcomes :
        /\ last' = [op |-> "make_request", device_id |-> device_id, call |-> c,
                    outcome |-> outcome,
                    out |-> make_request(devices[device_id], c.method, c.endpoint,
                                         c.params, c.data, c.vdom, outcome)]
        /\ UNCHANGED <<devices, devices_order, next_oid, removed>>

TestConnection ==
    \E device_id \in DOMAIN devices, outcome \in Outcomes :
        /\ last' = [op |-> "test_connection", device_id |-> device_id,
                    outcome |-> outcome,
                    out |-> test_connection(devices[device_id], outcome)]
        /\ UNCHANGED <<devices, devices_order, next_oid, removed>>

SessionNext ==
    \/ Open
    \/ Request
    \/ TestConnection

SpecRequest == Unstarted /\ [][SessionNext]_vars

(***************************************************************************)
(* FortiGateManager.test_all_connections: every registered session is      *)
(* probed in the order of self.devices, httpx answering the probe of each  *)
(* device with the outcome outcomes[device_id].                             *)
(***************************************************************************)
\* the loop ends at the first device whose probe gives False
RECURSIVE test_all_connections_abort(_, _)
test_all_connections_abort(m, outcomes) ==
    IF m.order = << >>
    THEN [probed |-> << >>, sent |-> << >>, result |-> Returned(EmptyDict)]
    ELSE LET device_id == m.order[1]
             r == test_connection(m.devices[device_id], outcomes[device_id])
             value == IF r.result.kind = "return" THEN r.result.value ELSE FALSE
             rest == IF value
                     THEN test_all_connections_abort([m EXCEPT !.order = Tail(@)], outcomes)
                     ELSE [probed |-> << >>, sent |-> << >>, result |-> Returned(EmptyDict)]
             results == rest.result.value
         IN  [probed |-> <<device_id>> \o rest.probed,
              sent |-> r.sent \o rest.sent,
              result |-> Returned([k \in {device_id} \cup DOMAIN results |->
                                      IF k = device_id THEN value ELSE results[k]])]

\* self.test_all_connections(): the dict returned (result), the sessions
\* whose test_connection() was called, in call order (probed), and the
\* requests sent (sent)
RECURSIVE test_all_connections(_, _)
test_all_connections(m, outcomes) ==
    IF m.order = << >>
    THEN [probed |-> << >>, sent |-> << >>, result |-> Returned(EmptyDict)]
    ELSE LET device_id == m.order[1]
             r == test_connection(m.devices[device_id], outcomes[device_id])
             \* try: results[device_id] = ... except Exception: results[device_id] = False
             value == IF r.result.kind = "return" THEN r.result.value ELSE FALSE
             rest == test_all_connections([m EXCEPT !.order = Tail(@)], outcomes)
             results == rest.result.value
         IN  [probed |-> <<device_id>> \o rest.probed,
              sent |-> r.sent \o rest.sent,
              result |-> Returned([k \in {device_id} \cup DOMAIN results |->
                                      IF k = device_id THEN value ELSE results[k]])]

(***************************************************************************)
(* The fleet: a server started from a static configuration whose devices   *)
(* are removed and probed together.                                        *)
(***************************************************************************)
\* what httpx does with a probe: a JSON answer, an error answer, a timeout,
\* a URL that cannot be parsed
ProbeOutcomes ==
    { o \in Outcomes :
        \/ o.kind = "response" /\ o.status_code = 200 /\ o.body.text = "[]"
        \/ o.kind = "response" /\ o.status_code = 403 /\ o.body.text = "<html>Forbidden</html>"
        \/ o.kind = "exception" /\ o.cause \in {"connect_timeout", "invalid_url"} }

TestAllConnections ==
    \E outcomes \in [DOMAIN devices -> ProbeOutcomes] :
        /\ last' = [op |-> "test_all_connections", outcomes |-> outcomes,
                    out |-> test_all_connections(Manager, outcomes)]
        /\ UNCHANGED <<devices, devices_order, next_oid, removed>>

FleetNext ==
    \/ RemoveDevice
    \/ TestAllConnections

SpecFleet == Init /\ [][FleetNext]_vars

(***************************************************************************)
(* The resource methods of FortiGateAPI.  Each is one _make_request call   *)
(* with a fixed method and an endpoint built from the collection path of   *)
(* its family.  The class defines list, create, update and delete for      *)
(* every family and a detail method for firewall policies only: calling a  *)
(* method the class does not define raises AttributeError.                 *)
(***************************************************************************)
Families == {"firewall_policy", "address_object", "service_object", "static_route"}

Operations == {"list", "getDetail", "create", "update", "delete"}

\* the endpoint of the family's collection, as its path segments
CollectionPath(family) ==
    CASE family = "firewall_policy" -> <<"cmdb", "firewall", "policy">>
      [] family = "address_object" -> <<"cmdb", "firewall", "address">>
      [] family = "service_object" -> <<"cmdb", "firewall.service", "custom">>
      [] family = "static_route" -> <<"cmdb", "router", "static">>

\* f"{collection}/{key}"
ItemPath(family, key) == Append(CollectionPath(family), key)

\* the methods FortiGateAPI has
HasMethod(family, operation) ==
    operation \in {"list", "create", "update", "delete"}
    \/ (operation = "getDetail" /\ family = "firewall_policy")

NoMethod ==
    [sent |-> << >>, logs |-> << >>,
     result |-> [kind |-> "raise", exc |-> "AttributeError"]]

\* delete is sent to the collection endpoint
resource_call_delete_all(api, family, operation, key, payload, vdom, outcome) ==
    IF ~HasMethod(family, operation) THEN NoMethod
    ELSE CASE operation = "list" ->
                make_request(api, "GET", CollectionPath(family), None, None, vdom, outcome)
           [] operation = "getDetail" ->
                make_request(api, "GET", ItemPath(family, key), None, None, vdom, outcome)
           [] operation = "create" ->
                make_request(api, "POST", CollectionPath(family), None, Some(payload), vdom,
                             outcome)
           [] operation = "update" ->
                make_request(api, "PUT", ItemPath(family, key), None, Some(payload), vdom,
                             outcome)
           [] operation = "delete" ->
                make_request(api, "DELETE", CollectionPath(family), None, None, vdom, outcome)

\* get_<family>s(vdom), get_firewall_policy_detail(key, vdom),
\* create_<family>(payload, vdom), update_<family>(key, payload, vdom) and
\* delete_<family>(key, vdom) on the session api
resource_call(api, family, operation, key, payload, vdom, outcome) ==
    IF ~HasMethod(family, operation) THEN NoMethod
    ELSE CASE operation = "list" ->
                make_request(api, "GET", CollectionPath(family), None, None, vdom, outcome)
           [] operation = "getDetail" ->
                make_request(api, "GET", ItemPath(family, key), None, None, vdom, outcome)
           [] operation = "create" ->
                make_request(api, "POST", CollectionPath(family), None, Some(payload), vdom,
                             outcome)
           [] operation = "update" ->
                make_request(api, "PUT", ItemPath(family, key), None, Some(payload), vdom,
                             outcome)
           [] operation = "delete" ->
                make_request(api, "DELETE", ItemPath(family, key), None, None, vdom, outcome)

\* a resource operation of the tool layer: the identifier is resolved
\* through the registry, then the session method is called
resource_operation(m, device_id, family, operation, key, payload, vdom, outcome) ==
    LET r == get_device(m, device_id)
    IN  IF r.kind = "raise"
        THEN [sent |-> << >>, logs |-> << >>, result |-> r]
        ELSE resource_call(r.value, family, operation, key, payload, vdom, outcome)

(***************************************************************************)
(* Resource operations as a state machine: one identifier is registered,   *)
(* then every operation of every family is called for it and for an        *)
(* identifier that was never registered.                                   *)
(***************************************************************************)
\* key, payload and vdom of a call: a plain call, and one with a key that
\* holds a slash, an empty payload and a vdom override
ResourceArgs ==
    { [key |-> "1", payload |-> Payload, vdom |-> None],
      [key |-> "srv/a", payload |-> EmptyParams, vdom |-> Some("vd2")] }

ResourceOperation ==
    \E device_id \in DeviceIds, family \in Families, operation \in Operations,
       a \in ResourceArgs, outcome \in ProbeOutcomes :
        /\ last' = [op |-> "resource_operation", device_id |-> device_id,
                    family |-> family, operation |-> operation, args |-> a,
                    outcome |-> outcome,
                    out |-> resource_operation(Manager, device_id, family, operation,
                                               a.key, a.payload, a.vdom, outcome)]
        /\ UNCHANGED <<devices, devices_order, next_oid, removed>>

ResourceNext ==
    \/ Open
    \/ ResourceOperation

SpecResource == Unstarted /\ [][ResourceNext]_vars

(***************************************************************************)
(* Formatting: FortiGateTemplates.  A policy is a dict of decoded JSON     *)
(* values, given as a function from its keys.  The texts of the templates  *)
(* are written in ASCII, without their pictograms and diacritics.          *)
(***************************************************************************)
\* the characters of a string
Chars(s) == [i \in 1..Len(s) |-> SubSeq(s, i, i)]

\* the JSON string s
Str(s) == JStr(Chars(s))

\* {"name": name}
Ref(name) == JObj("name" :> Str(name))

UpperCase == Chars("ABCDEFGHIJKLMNOPQRSTUVWXYZ")
LowerCase == Chars("abcdefghijklmnopqrstuvwxyz")

\* str.lower()
lower(chars) ==
    [i \in 1..Len(chars) |->
        IF \E j \in 1..Len(UpperCase) : UpperCase[j] = chars[i]
        THEN LowerCase[CHOOSE j \in 1..Len(UpperCase) : UpperCase[j] = chars[i]]
        ELSE chars[i]]

\* the keys of a reference object, in the order the appliance sends them
KeyOrder == <<"name", "q_origin_key">>

\* the items 'key': 'value' of str(dict), for the keys of order held by f
RECURSIVE ReprItems(_, _)
ReprItems(f, order) ==
    IF order = << >> THEN << >>
    ELSE IF order[1] \in DOMAIN f
         THEN <<"'" \o order[1] \o "': '" \o Join(f[order[1]].v, "") \o "'">>
                  \o ReprItems(f, Tail(order))
         ELSE ReprItems(f, Tail(order))

\* str(intf) of an interface entry: the string itself, or the repr of the dict
str(intf) ==
    IF intf.t = "str" THEN intf.v
    ELSE Chars("{" \o Join(ReprItems(intf.v, KeyOrder), ", ") \o "}")

\* truth value of a decoded JSON value
PyTruthy(d) ==
    CASE d.t = "null" -> FALSE
      [] d.t = "str" -> d.v # << >>
      [] d.t = "num" -> d.v # 0
      [] d.t = "arr" -> d.v # << >>
      [] d.t = "obj" -> DOMAIN d.v # {}

\* policy.get(key)
get(policy, key) == IF key \in DOMAIN policy THEN policy[key] ELSE JNull

\* policy.get(key, []), for a key that holds a list when present
get_list(policy, key) == IF key \in DOMAIN policy THEN policy[key].v ELSE << >>

\* policy.get(key) == s
get_is(policy, key, s) == get(policy, key).t = "str" /\ get(policy, key).v = Chars(s)

\* only an object is looked at: a bare string never matches
named_dict_only(addr, s) ==
    addr.t = "obj" /\ "name" \in DOMAIN addr.v /\ addr.v["name"].t = "str"
                   /\ addr.v["name"].v = Chars(s)

\* addr.get('name') == s if isinstance(addr, dict) else addr == s
named(addr, s) ==
    IF addr.t = "obj"
    THEN "name" \in DOMAIN addr.v /\ addr.v["name"].t = "str" /\ addr.v["name"].v = Chars(s)
    ELSE addr.t = "str" /\ addr.v = Chars(s)

\* any(<named s> for addr in items)
any_named(items, s) == \E i \in 1..Len(items) : named(items[i], s)

\* any(s in str(intf).lower() for intf in items)
any_contains(items, s) ==
    \E i \in 1..Len(items) : IsSubSeq(Chars(s), lower(str(items[i])))

\* lines 407-408
wan_to_lan(policy) ==
    /\ any_contains(get_list(policy, "srcintf"), "wan")
    /\ \/ any_contains(get_list(policy, "dstintf"), "internal")
       \/ any_contains(get_list(policy, "dstintf"), "lan")

\* one check of the analysis: its points and its risk factor when found
Check(found, points, factor) ==
    IF found THEN [points |-> points, factors |-> <<factor>>]
    ELSE [points |-> 0, factors |-> << >>]

\* lines 373-412: the checks of _analyze_policy_security, in order
SecurityChecks(policy) ==
    << Check(any_named(get_list(policy, "srcaddr"), "all"), 3,
             "Kaynak adres 'all' - Global erisim"),
       Check(any_named(get_list(policy, "dstaddr"), "all"), 2,
             "Hedef adres 'all' - Genis hedef erisimi"),
       Check(any_named(get_list(policy, "service"), "ALL"), 2,
             "Servis 'ALL' - Tum portlar acik"),
       Check(~get_is(policy, "logtraffic", "all"), 1, "Log kaydi devre disi"),
       Check(~PyTruthy(get(policy, "av-profile")), 1, "Antivirus profili yok"),
       Check(~PyTruthy(get(policy, "ips-sensor")), 1, "IPS sensoru yok"),
       Check(wan_to_lan(policy) /\ ~PyTruthy(get(policy, "ips-sensor")), 2,
             "WAN'dan LAN'a erisim - IPS korumasi yok") >>

RECURSIVE SumPoints(_)
SumPoints(checks) ==
    IF checks = << >> THEN 0 ELSE checks[1].points + SumPoints(Tail(checks))

RECURSIVE AllFactors(_)
AllFactors(checks) ==
    IF checks = << >> THEN << >> ELSE checks[1].factors \o AllFactors(Tail(checks))

\* min(a, b)
min(a, b) == IF a <= b THEN a ELSE b

\* the sum of the points is returned as it is
analyze_policy_security_uncapped(policy) ==
    LET checks == SecurityChecks(policy)
        risk_factors == AllFactors(checks)
    IN  [risk_score |-> SumPoints(checks),
         risk_factors |-> IF risk_factors = << >>
                          THEN <<"Belirgin guvenlik riski tespit edilmedi">>
                          ELSE risk_factors]

\* the list of risk factors is returned as it is, empty when nothing is found
analyze_policy_security_bare(policy) ==
    LET checks == SecurityChecks(policy)
    IN  [risk_score |-> min(SumPoints(checks), 10),
         risk_factors |-> AllFactors(checks)]

\* FortiGateTemplates._analyze_policy_security(policy)
analyze_policy_security(policy) ==
    LET checks == SecurityChecks(policy)
        risk_factors == AllFactors(checks)
    IN  [risk_score |-> min(SumPoints(checks), 10),
         risk_factors |-> IF risk_factors = << >>
                          THEN <<"Belirgin guvenlik riski tespit edilmedi">>
                          ELSE risk_factors]

\* one check of the recommendations: its advisory when found
Advise(found, advisory) == IF found THEN <<advisory>> ELSE << >>

\* lines 455-458: the NAT check
nat_missing(policy) ==
    /\ get_is(policy, "action", "accept")
    /\ ~PyTruthy(get(policy, "nat"))
    /\ any_contains(get_list(policy, "dstintf"), "wan")

\* the antivirus and the IPS advisory change places
get_policy_recommendations_swapped(policy) ==
    Advise(any_named(get_list(policy, "srcaddr"), "all"),
           "Kaynak adresini daha spesifik hale getirin (belirli IP araliklari)")
    \o Advise(any_named(get_list(policy, "service"), "ALL"),
              "Servis tanimini spesifik portlarla sinirlayin")
    \o Advise(~get_is(policy, "logtraffic", "all"),
              "Trafik loglamasini etkinlestirin (security ve utm)")
    \o Advise(~PyTruthy(get(policy, "ips-sensor")), "IPS sensoru ekleyin")
    \o Advise(~PyTruthy(get(policy, "av-profile")), "Antivirus profili ekleyin")
    \o Advise(~PyTruthy(get(policy, "application-list")),
              "Uygulama kontrolu profili ekleyin")
    \o Advise(~PyTruthy(get(policy, "webfilter-profile")),
              "Web filtreleme profili ekleyin")
    \o Advise(nat_missing(policy), "Internete cikis icin NAT'i etkinlestirin")

\* FortiGateTemplates._get_policy_recommendations(policy)
get_policy_recommendations(policy) ==
    Advise(any_named(get_list(policy, "srcaddr"), "all"),
           "Kaynak adresini daha spesifik hale getirin (belirli IP araliklari)")
    \o Advise(any_named(get_list(policy, "service"), "ALL"),
              "Servis tanimini spesifik portlarla sinirlayin")
    \o Advise(~get_is(policy, "logtraffic", "all"),
              "Trafik loglamasini etkinlestirin (security ve utm)")
    \o Advise(~PyTruthy(get(policy, "av-profile")), "Antivirus profili ekleyin")
    \o Advise(~PyTruthy(get(policy, "ips-sensor")), "IPS sensoru ekleyin")
    \o Advise(~PyTruthy(get(policy, "application-list")),
              "Uygulama kontrolu profili ekleyin")
    \o Advise(~PyTruthy(get(policy, "webfilter-profile")),
              "Web filtreleme profili ekleyin")
    \o Advise(nat_missing(policy), "Internete cikis icin NAT'i etkinlestirin")

(***************************************************************************)
(* Policy documents.                                                       *)
(***************************************************************************)
\* the dict with key k when the optional value o is given, the empty dict otherwise
Field(k, o) == IF o = None THEN EmptyParams ELSE (k :> o[1])

AddressLists ==
    { None,
      Some(JArr(<<Ref("all")>>)),
      Some(JArr(<<Ref("net1"), Str("all")>>)),
      Some(JArr(<<Ref("net1"), Ref("srv")>>)) }

DestinationLists ==
    { Some(JArr(<<Ref("all")>>)),
      Some(JArr(<<Ref("srv"), Ref("db")>>)) }

ServiceLists ==
    { Some(JArr(<<Ref("ALL")>>)),
      Some(JArr(<<Ref("HTTP"), Ref("all")>>)) }

LogTraffic == {None, Some(Str("all")), Some(Str("utm"))}

Profiles == {None, Some(Str("")), Some(Str("default"))}

Sensors == {None, Some(Str("default"))}

SourceInterfaces ==
    { Some(JArr(<<Ref("wan1")>>)),
      Some(JArr(<<Str("port1"), Ref("WAN")>>)),
      Some(JArr(<<Ref("port1")>>)) }

DestinationInterfaces ==
    { Some(JArr(<<JObj(("name" :> Str("internal")) @@ ("q_origin_key" :> Str("internal")))>>)),
      Some(JArr(<<Ref("VLAN10")>>)),
      Some(JArr(<<Ref("wan2")>>)) }

\* attributes the analysis does not read
OtherAttributes ==
    { EmptyParams,
      ("action" :> Str("accept")) @@ ("status" :> Str("enable")),
      ("action" :> Str("accept")) @@ ("nat" :> Str("enable"))
          @@ ("application-list" :> Str("default"))
          @@ ("webfilter-profile" :> Str("default")),
      ("action" :> Str("accept")) @@ ("nat" :> Str("disable"))
          @@ ("webfilter-profile" :> Str("default")),
      ("action" :> Str("deny")) @@ ("application-list" :> Str("default")) }

Policies ==
    { ("policyid" :> JNum(1)) @@ ("name" :> Str("P"))
          @@ Field("srcaddr", srcaddr) @@ Field("dstaddr", dstaddr)
          @@ Field("service", service) @@ Field("logtraffic", logtraffic)
          @@ Field("av-profile", av) @@ Field("ips-sensor", ips)
          @@ Field("srcintf", srcintf) @@ Field("dstintf", dstintf) @@ other :
        srcaddr \in AddressLists, dstaddr \in DestinationLists,
        service \in ServiceLists, logtraffic \in LogTraffic, av \in Profiles,
        ips \in Sensors, srcintf \in SourceInterfaces,
        dstintf \in DestinationInterfaces, other \in OtherAttributes }

(***************************************************************************)
(* The analysis of a policy as a state machine: a policy document is       *)
(* given, then analysed.                                                   *)
(***************************************************************************)
PolicyGiven ==
    /\ devices = EmptyDict
    /\ devices_order = << >>
    /\ next_oid = 0
    /\ removed = {}
    /\ \E policy \in Policies : last = [op |-> "policy", policy |-> policy]

AnalyzePolicySecurity ==
    /\ last' = [op |-> "analyze_policy_security", policy |-> last.policy,
                out |-> analyze_policy_security(last.policy)]
    /\ UNCHANGED <<devices, devices_order, next_oid, removed>>

GetPolicyRecommendations ==
    /\ last' = [op |-> "get_policy_recommendations", policy |-> last.policy,
                out |-> get_policy_recommendations(last.policy)]
    /\ UNCHANGED <<devices, devices_order, next_oid, removed>>

PolicyNext ==
    \/ AnalyzePolicySecurity
    \/ GetPolicyRecommendations

SpecPolicy == PolicyGiven /\ [][PolicyNext]_vars

(***************************************************************************)
(* FortiGateTemplates.firewall_policy_detail.  The text returned is its    *)
(* lines joined by newlines; the model keeps the lines, and names the      *)
(* colour of a pictogram where the template chooses between pictograms.    *)
(***************************************************************************)
\* str.upper()
upper(chars) ==
    [i \in 1..Len(chars) |->
        IF \E j \in 1..Len(LowerCase) : LowerCase[j] = chars[i]
        THEN UpperCase[CHOOSE j \in 1..Len(LowerCase) : LowerCase[j] = chars[i]]
        ELSE chars[i]]

\* a value in an f-string
Fmt(d) == IF d.t = "str" THEN Join(d.v, "") ELSE PyStr(d)

\* f"{d.get(key, default)}"
FmtGet(d, key, default) == IF key \in DOMAIN d THEN Fmt(d[key]) ELSE default

\* d.get(key), as a truth value
Has(d, key) == PyTruthy(get(d, key))

\* the results of the response are an object only: a list is not unwrapped
select_policy_object_only(policy_data) ==
    IF "results" \notin DOMAIN policy_data \/ ~PyTruthy(policy_data["results"])
    THEN Returned(None)
    ELSE IF policy_data["results"].t = "arr"
         THEN [kind |-> "raise", exc |-> "AttributeError"]
         ELSE Returned(Some(policy_data["results"].v))

\* lines 163-173: the policy of a detail response, None for "not found"
select_policy(policy_data) ==
    IF "results" \notin DOMAIN policy_data \/ ~PyTruthy(policy_data["results"])
    THEN Returned(None)
    ELSE LET results == policy_data["results"]
         IN  IF results.t = "arr"
             THEN IF results.v = << >> THEN Returned(None)
                  ELSE Returned(Some(results.v[1].v))
             ELSE Returned(Some(results.v))

\* [intf.get('name', 'unknown') if isinstance(intf, dict) else str(intf) ...]
RECURSIVE interface_names(_)
interface_names(items) ==
    IF items = << >> THEN << >>
    ELSE <<IF items[1].t = "obj" THEN FmtGet(items[1].v, "name", "unknown")
           ELSE Join(str(items[1]), "")>> \o interface_names(Tail(items))

\* the loops of lines 200-205, 234-239 and 266-271: the names of the entries
\* that are objects with a name or strings
RECURSIVE entry_names(_)
entry_names(items) ==
    IF items = << >> THEN << >>
    ELSE IF items[1].t = "obj" /\ "name" \in DOMAIN items[1].v
         THEN <<Join(items[1].v["name"].v, "")>> \o entry_names(Tail(items))
         ELSE IF items[1].t = "str"
         THEN <<Join(items[1].v, "")>> \o entry_names(Tail(items))
         ELSE entry_names(Tail(items))

\* {obj["name"]: obj for obj in results}: the keys, and the object of a key
DictKeys(results) == {Join(results[i]["name"].v, "") : i \in 1..Len(results)}

DictAt(results, name) ==
    results[CHOOSE i \in 1..Len(results) :
                /\ Join(results[i]["name"].v, "") = name
                /\ \A j \in (i + 1)..Len(results) : Join(results[j]["name"].v, "") # name]

\* the line of an address object that was found, if it has anything to show
address_line(name, addr) ==
    IF Has(addr, "subnet") THEN <<"  - " \o name \o ": " \o Fmt(addr["subnet"])>>
    ELSE IF Has(addr, "start-ip") /\ Has(addr, "end-ip")
    THEN <<"  - " \o name \o ": " \o Fmt(addr["start-ip"]) \o " - " \o Fmt(addr["end-ip"])>>
    ELSE IF Has(addr, "fqdn") THEN <<"  - " \o name \o ": " \o Fmt(addr["fqdn"])>>
    ELSE << >>

\* a name without a match in the collection gets no line
RECURSIVE resolve_addresses_silent(_, _)
resolve_addresses_silent(names, results) ==
    IF names = << >> THEN << >>
    ELSE (IF names[1] \in DictKeys(results)
          THEN address_line(names[1], DictAt(results, names[1]))
          ELSE << >>)
         \o resolve_addresses_silent(Tail(names), results)

\* lines 217-228 and 249-260: the lines of the resolved addresses
RECURSIVE resolve_addresses(_, _)
resolve_addresses(names, results) ==
    IF names = << >> THEN << >>
    ELSE (IF names[1] \in DictKeys(results)
          THEN address_line(names[1], DictAt(results, names[1]))
          ELSE <<"  - " \o names[1] \o ": Cozumlenemedi">>)
         \o resolve_addresses(Tail(names), results)

\* the line of a service object that was found
service_line(name, svc) ==
    IF Has(svc, "tcp-portrange")
    THEN "  - " \o name \o ": TCP " \o Fmt(svc["tcp-portrange"])
    ELSE IF Has(svc, "udp-portrange")
    THEN "  - " \o name \o ": UDP " \o Fmt(svc["udp-portrange"])
    ELSE "  - " \o name \o ": "
             \o Join(upper(IF "protocol" \in DOMAIN svc THEN svc["protocol"].v
                           ELSE Chars("unknown")), "")

\* lines 283-294: the lines of the resolved services
RECURSIVE resolve_services(_, _)
resolve_services(names, results) ==
    IF names = << >> THEN << >>
    ELSE <<IF names[1] \in DictKeys(results)
           THEN service_line(names[1], DictAt(results, names[1]))
           ELSE "  - " \o names[1] \o ": Cozumlenemedi">>
         \o resolve_services(Tail(names), results)

\* `if objects and "results" in objects`
Resolvable(objects) == DictTruthy(objects) /\ "results" \in DOMAIN objects[1]

\* lines 208-230 and 242-262: the section of the source or destination addresses
address_section(title, names, address_objects) ==
    << title,
       "* **Adres Nesneleri**: " \o Join(names, ", "),
       "* **Toplam Nesne Sayisi**: " \o ToString(Len(names)) >>
    \o (IF Resolvable(address_objects)
        THEN <<"* **Cozumlenen Adresler**:">>
                 \o resolve_addresses(names, address_objects[1]["results"])
        ELSE << >>)
    \o <<"">>

\* lines 274-296: the section of the services
service_section(names, service_objects) ==
    << "## **Servisler**",
       "* **Servis Nesneleri**: " \o Join(names, ", "),
       "* **Toplam Servis Sayisi**: " \o ToString(Len(names)) >>
    \o (IF Resolvable(service_objects)
        THEN <<"* **Cozumlenen Servisler**:">>
                 \o resolve_services(names, service_objects[1]["results"])
        ELSE << >>)
    \o <<"">>

\* lines 310-311: the name of the schedule
schedule_name(policy) ==
    LET schedule == get_list(policy, "schedule")
    IN  IF schedule = << >> THEN "always"
        ELSE IF schedule[1].t = "obj"
             THEN (IF "name" \in DOMAIN schedule[1].v THEN Fmt(schedule[1].v["name"])
                   ELSE "None")
             ELSE Fmt(schedule[1])

\* the line that opens and closes a code block, three backquotes in the
\* template
CodeFence == "~~~"

YesNo(found) == IF found THEN "Evet" ELSE "Hayir"

\* for i, rec in enumerate(recommendations, 1): f"{i}. {rec}"
numbered(recommendations) ==
    [i \in 1..Len(recommendations) |-> ToString(i) \o ". " \o recommendations[i]]

\* f"* {factor}" for factor in risk_factors
bulleted(risk_factors) == [i \in 1..Len(risk_factors) |-> "* " \o risk_factors[i]]

\* lines 174-365: the lines of the detail of one policy
policy_lines(policy, device_id, address_objects, service_objects) ==
    LET action == IF "action" \in DOMAIN policy THEN policy["action"].v ELSE Chars("unknown")
        analysis == analyze_policy_security(policy)
        risk_score == analysis.risk_score
        recommendations == get_policy_recommendations(policy)
    IN  << "**Policy Detayli Analizi - Device: " \o device_id \o "**", "",
           "## **Temel Bilgiler**",
           "* **Policy ID**: " \o FmtGet(policy, "policyid", "N/A"),
           "* **Policy Adi**: " \o FmtGet(policy, "name", "Unnamed"),
           "* **Durum**: " \o (IF get_is(policy, "status", "enable") THEN "Aktif"
                               ELSE "Devre Disi"),
           "* **UUID**: " \o FmtGet(policy, "uuid", "N/A"),
           "",
           "## **Trafik Yonu**",
           "* **Kaynak Interface**: "
               \o Join(interface_names(get_list(policy, "srcintf")), ", "),
           "* **Hedef Interface**: "
               \o Join(interface_names(get_list(policy, "dstintf")), ", "),
           "" >>
        \o address_section("## **Kaynak (Source)**",
                           entry_names(get_list(policy, "srcaddr")), address_objects)
        \o address_section("## **Hedef (Destination)**",
                           entry_names(get_list(policy, "dstaddr")), address_objects)
        \o service_section(entry_names(get_list(policy, "service")), service_objects)
        \o << "## **Aksiyon ve Guvenlik**",
              "* **Aksiyon**: "
                  \o (IF action = Chars("accept") THEN "green"
                      ELSE IF action = Chars("deny") THEN "red" ELSE "white")
                  \o " " \o Join(upper(action), ""),
              "* **Log Trafigi**: " \o YesNo(get_is(policy, "logtraffic", "all")),
              "* **NAT**: " \o YesNo(get_is(policy, "nat", "enable")),
              "* **Zamanlama**: " \o schedule_name(policy) >>
        \o (IF Has(policy, "comments")
            THEN <<"", "## **Yorumlar**", CodeFence, Fmt(policy["comments"]), CodeFence>>
            ELSE << >>)
        \o << "",
              "## **Guvenlik Analizi**",
              "* **Risk Skoru**: "
                  \o (IF risk_score >= 7 THEN "red" ELSE IF risk_score >= 4 THEN "yellow"
                      ELSE "green")
                  \o " " \o ToString(risk_score) \o "/10",
              "",
              "### **Risk Faktorleri**:" >>
        \o bulleted(analysis.risk_factors)
        \o <<"">>
        \o (IF recommendations # << >>
            THEN <<"## **Iyilestirme Onerileri**", "">> \o numbered(recommendations)
            ELSE << >>)
        \o << "",
              "## **Teknik Detaylar**",
              "* **Sequence Number**: " \o FmtGet(policy, "seq-num", "N/A"),
              "* **Internet Service**: " \o YesNo(get_is(policy, "internet-service", "enable")),
              "* **Application Control**: " \o YesNo(Has(policy, "application-list")),
              "* **Antivirus**: " \o YesNo(Has(policy, "av-profile")),
              "* **Web Filter**: " \o YesNo(Has(policy, "webfilter-profile")),
              "* **IPS**: " \o YesNo(Has(policy, "ips-sensor")),
              "" >>

\* FortiGateTemplates.firewall_policy_detail(policy_data, device_id,
\* address_objects, service_objects)
firewall_policy_detail(policy_data, device_id, address_objects, service_objects) ==
    LET selected == select_policy(policy_data)
    IN  IF selected.kind = "raise" THEN selected
        ELSE IF selected.value = None
        THEN Returned(<<"Policy not found on device " \o device_id>>)
        ELSE Returned(policy_lines(selected.value[1], device_id, address_objects,
                                   service_objects))

(***************************************************************************)
(* Detail responses and object collections.                                *)
(***************************************************************************)
\* the policies of the detail responses
DetailPolicies ==
    << ("policyid" :> JNum(35)) @@ ("name" :> Str("WAN-Project"))
           @@ ("srcintf" :> JArr(<<Ref("wan1")>>)) @@ ("dstintf" :> JArr(<<Ref("internal")>>))
           @@ ("srcaddr" :> JArr(<<Ref("all")>>))
           @@ ("dstaddr" :> JArr(<<Ref("srv"), Ref("db")>>))
           @@ ("service" :> JArr(<<Ref("ALL")>>))
           @@ ("action" :> Str("accept")) @@ ("status" :> Str("enable"))
           @@ ("uuid" :> Str("u-1")),
       ("policyid" :> JNum(2)) @@ ("name" :> Str("P"))
           @@ ("srcaddr" :> JArr(<<Ref("net1"), Str("all"),
                                   JObj("q_origin_key" :> Str("x"))>>))
           @@ ("dstaddr" :> JArr(<<Str("srv")>>))
           @@ ("service" :> JArr(<<Ref("HTTP"), Ref("all")>>))
           @@ ("logtraffic" :> Str("all")) @@ ("av-profile" :> Str("default"))
           @@ ("ips-sensor" :> Str("default")) @@ ("nat" :> Str("enable"))
           @@ ("action" :> Str("deny")) @@ ("comments" :> Str("temporary"))
           @@ ("schedule" :> JArr(<<Ref("always")>>)),
       ("policyid" :> JNum(7)) >>

\* the responses of the detail endpoint: results as an object, as a list of
\* one or two objects, empty in every way, or missing
DetailResponses ==
    [i \in 1..Len(DetailPolicies) |-> "results" :> JObj(DetailPolicies[i])]
    \o [i \in 1..Len(DetailPolicies) |-> "results" :> JArr(<<JObj(DetailPolicies[i])>>)]
    \o [i \in 1..Len(DetailPolicies) |->
           "results" :> JArr(<<JObj(DetailPolicies[i]), JObj("policyid" :> JNum(8))>>)]
    \o << "results" :> JArr(<< >>),
          "results" :> JObj(EmptyParams),
          "results" :> JNull,
          "status" :> Str("error") >>

\* address_objects: not given, an empty dict, a response without results,
\* the empty collection, and two collections
AddressCollections ==
    { None,
      Some(EmptyParams),
      Some("status" :> Str("error")),
      Some("results" :> << >>),
      Some("results" :>
             << ("name" :> Str("all")) @@ ("subnet" :> Str("0.0.0.0 0.0.0.0")),
                ("name" :> Str("net1")) @@ ("start-ip" :> Str("10.0.0.1"))
                    @@ ("end-ip" :> Str("10.0.0.9")),
                ("name" :> Str("srv")) @@ ("fqdn" :> Str("srv.example")) >>),
      Some("results" :>
             << ("name" :> Str("net1")) @@ ("type" :> Str("geography")),
                ("name" :> Str("ALL")) @@ ("subnet" :> Str("10.1.0.0 255.255.0.0")) >>) }

ServiceCollections ==
    { None,
      Some("results" :> << >>),
      Some("results" :>
             << ("name" :> Str("ALL")) @@ ("protocol" :> Str("tcp/udp/sctp")),
                ("name" :> Str("HTTP")) @@ ("tcp-portrange" :> Str("80")) >>),
      Some("results" :>
             << ("name" :> Str("DNS")) @@ ("udp-portrange" :> Str("53")) >>) }

(***************************************************************************)
(* The detail of a policy as a state machine: a detail response and the    *)
(* object collections are given, then formatted.                           *)
(***************************************************************************)
DetailGiven ==
    /\ devices = EmptyDict
    /\ devices_order = << >>
    /\ next_oid = 0
    /\ removed = {}
    /\ \E i \in 1..Len(DetailResponses), address_objects \in AddressCollections,
          service_objects \in ServiceCollections :
            last = [op |-> "detail_response", policy_data |-> DetailResponses[i],
                    device_id |-> SessionId, address_objects |-> address_objects,
                    service_objects |-> service_objects]

FirewallPolicyDetail ==
    /\ last' = [op |-> "firewall_policy_detail", policy_data |-> last.policy_data,
                device_id |-> last.device_id, address_objects |-> last.address_objects,
                service_objects |-> last.service_objects,
                out |-> firewall_policy_detail(last.policy_data, last.device_id,
                                               last.address_objects, last.service_objects)]
    /\ UNCHANGED <<devices, devices_order, next_oid, removed>>

DetailNext ==
    \/ FirewallPolicyDetail

SpecDetail == DetailGiven /\ [][DetailNext]_vars

(***************************************************************************)
(* The list templates of FortiGateTemplates.  Each returns its lines       *)
(* joined by newlines; the model keeps the lines and names a pictogram     *)
(* where the template chooses between pictograms.                          *)
(***************************************************************************)
\* `if "results" in data and data["results"]`
HasResults(data) == "results" \in DOMAIN data /\ PyTruthy(data["results"])

\* the sequences of a sequence, one after the other
RECURSIVE Concat(_)
Concat(seqs) == IF seqs = << >> THEN << >> ELSE seqs[1] \o Concat(Tail(seqs))

\* the results of a response, as the documents of its items
results(data) == [i \in 1..Len(data["results"].v) |-> data["results"].v[i].v]

\* ', '.join(names) if any, else 'any'
names_or_any(items) ==
    LET text == Join(entry_names(items), ", ") IN IF text # "" THEN text ELSE "any"

\* lines 96-134: the lines of one policy of the list
policy_item(policy) ==
    << (IF get_is(policy, "status", "enable") THEN "on" ELSE "off")
           \o " **Policy " \o FmtGet(policy, "policyid", "N/A") \o "** "
           \o (IF get_is(policy, "action", "accept") THEN "green" ELSE "red"),
       "   * Name: " \o FmtGet(policy, "name", "Unnamed"),
       "   * Source: " \o names_or_any(get_list(policy, "srcaddr")),
       "   * Destination: " \o names_or_any(get_list(policy, "dstaddr")),
       "   * Service: " \o names_or_any(get_list(policy, "service")),
       "   * Action: " \o FmtGet(policy, "action", "unknown"),
       "" >>

\* an empty list is rendered as the header alone
firewall_policies_header_only(policies_data) ==
    <<"**Firewall Policies**", "">>
    \o (IF "results" \in DOMAIN policies_data /\ policies_data["results"].t = "arr"
        THEN Concat([i \in 1..Len(results(policies_data)) |-> policy_item(results(policies_data)[i])])
        ELSE <<"No firewall policies found">>)

\* FortiGateTemplates.firewall_policies(policies_data)
firewall_policies(policies_data) ==
    <<"**Firewall Policies**", "">>
    \o (IF HasResults(policies_data)
        THEN Concat([i \in 1..Len(results(policies_data)) |-> policy_item(results(policies_data)[i])])
        ELSE <<"No firewall policies found">>)

\* lines 478-503: the lines of one address object
address_item(addr) ==
    LET type == FmtGet(addr, "type", "")
    IN  << (CASE type = "ipmask" -> "globe"
              [] type = "iprange" -> "ruler"
              [] type = "fqdn" -> "link"
              [] type = "geography" -> "map"
              [] OTHER -> "pin")
               \o " **" \o FmtGet(addr, "name", "Unnamed") \o "**",
           "   * Type: " \o FmtGet(addr, "type", "unknown") >>
        \o (IF Has(addr, "subnet") THEN <<"   * Subnet: " \o Fmt(addr["subnet"])>>
            ELSE IF Has(addr, "start-ip") /\ Has(addr, "end-ip")
            THEN <<"   * Range: " \o Fmt(addr["start-ip"]) \o " - " \o Fmt(addr["end-ip"])>>
            ELSE IF Has(addr, "fqdn") THEN <<"   * FQDN: " \o Fmt(addr["fqdn"])>>
            ELSE << >>)
        \o (IF Has(addr, "comment") THEN <<"   * Comment: " \o Fmt(addr["comment"])>>
            ELSE << >>)
        \o <<"">>

\* FortiGateTemplates.address_objects(addresses_data)
address_objects(addresses_data) ==
    <<"**Address Objects**", "">>
    \o (IF HasResults(addresses_data)
        THEN Concat([i \in 1..Len(results(addresses_data)) |-> address_item(results(addresses_data)[i])])
        ELSE <<"No address objects found">>)

\* lines 526-548: the lines of one service object
service_item(service) ==
    LET protocol == Join(upper(IF "protocol" \in DOMAIN service THEN service["protocol"].v
                               ELSE Chars("unknown")), "")
    IN  << (CASE protocol = "TCP" -> "link"
              [] protocol = "UDP" -> "antenna"
              [] protocol = "ICMP" -> "horn"
              [] OTHER -> "gear")
               \o " **" \o FmtGet(service, "name", "Unnamed") \o "** (" \o protocol \o ")" >>
        \o (IF Has(service, "tcp-portrange")
            THEN <<"   * TCP Ports: " \o Fmt(service["tcp-portrange"])>> ELSE << >>)
        \o (IF Has(service, "udp-portrange")
            THEN <<"   * UDP Ports: " \o Fmt(service["udp-portrange"])>> ELSE << >>)
        \o (IF Has(service, "comment") THEN <<"   * Comment: " \o Fmt(service["comment"])>>
            ELSE << >>)
        \o <<"">>

\* FortiGateTemplates.service_objects(services_data)
service_objects(services_data) ==
    <<"**Service Objects**", "">>
    \o (IF HasResults(services_data)
        THEN Concat([i \in 1..Len(results(services_data)) |-> service_item(results(services_data)[i])])
        ELSE <<"No service objects found">>)

\* lines 571-586: the lines of one static route
route_item(route) ==
    << (IF get_is(route, "status", "enable") THEN "on" ELSE "off")
           \o " **Route " \o FmtGet(route, "seq-num", "N/A") \o "**",
       "   * Destination: " \o FmtGet(route, "dst", "0.0.0.0/0"),
       "   * Gateway: " \o FmtGet(route, "gateway", "N/A"),
       "   * Device: " \o FmtGet(route, "device", "N/A"),
       "   * Distance: " \o FmtGet(route, "distance", "N/A") >>
    \o (IF Has(route, "comment") THEN <<"   * Comment: " \o Fmt(route["comment"])>>
        ELSE << >>)
    \o <<"">>

\* FortiGateTemplates.static_routes(routes_data)
static_routes(routes_data) ==
    <<"**Static Routes**", "">>
    \o (IF HasResults(routes_data)
        THEN Concat([i \in 1..Len(results(routes_data)) |-> route_item(results(routes_data)[i])])
        ELSE <<"No static routes found">>)

\* lines 609-624: the lines of one interface
interface_item(interface) ==
    << (IF get_is(interface, "status", "up") THEN "green" ELSE "red")
           \o " **" \o FmtGet(interface, "name", "Unnamed") \o "**",
       "   * Type: " \o FmtGet(interface, "type", "unknown"),
       "   * Mode: " \o FmtGet(interface, "mode", "unknown") >>
    \o (IF Has(interface, "ip") THEN <<"   * IP: " \o Fmt(interface["ip"])>> ELSE << >>)
    \o (IF Has(interface, "alias") THEN <<"   * Alias: " \o Fmt(interface["alias"])>>
        ELSE << >>)
    \o <<"">>

\* FortiGateTemplates.interfaces(interfaces_data)
interfaces(interfaces_data) ==
    <<"**Network Interfaces**", "">>
    \o (IF HasResults(interfaces_data)
        THEN Concat([i \in 1..Len(results(interfaces_data)) |-> interface_item(results(interfaces_data)[i])])
        ELSE <<"No interfaces found">>)

\* the lines of one virtual IP: its name and its mapping
virtual_ip_item(vip) ==
    << "**" \o FmtGet(vip, "name", "Unnamed") \o "**",
       "   * External IP: " \o FmtGet(vip, "extip", "N/A"),
       "" >>

\* the list of the virtual IPs
virtual_ips(vips_data) ==
    <<"**Virtual IPs**", "">>
    \o (IF HasResults(vips_data)
        THEN Concat([i \in 1..Len(results(vips_data)) |-> virtual_ip_item(results(vips_data)[i])])
        ELSE <<"No virtual IPs found">>)

(***************************************************************************)
(* List responses: the items of a family, and the responses built of them. *)
(***************************************************************************)
ListFamilies ==
    {"policies", "address_objects", "service_objects", "static_routes", "interfaces",
     "virtual_ips"}

\* three items of a family
FamilyItems(family) ==
    CASE family = "policies" -> DetailPolicies
      [] family = "address_objects" ->
            << ("name" :> Str("net1")) @@ ("type" :> Str("ipmask"))
                   @@ ("subnet" :> Str("10.0.0.0 255.0.0.0")),
               ("name" :> Str("rng")) @@ ("type" :> Str("iprange"))
                   @@ ("start-ip" :> Str("10.0.0.1")) @@ ("end-ip" :> Str("10.0.0.9"))
                   @@ ("comment" :> Str("lab")),
               ("name" :> Str("srv")) @@ ("fqdn" :> Str("srv.example")) >>
      [] family = "service_objects" ->
            << ("name" :> Str("HTTP")) @@ ("protocol" :> Str("tcp"))
                   @@ ("tcp-portrange" :> Str("80")),
               ("name" :> Str("DNS")) @@ ("protocol" :> Str("TCP/UDP/SCTP"))
                   @@ ("tcp-portrange" :> Str("53")) @@ ("udp-portrange" :> Str("53")),
               ("name" :> Str("PING")) @@ ("protocol" :> Str("ICMP"))
                   @@ ("comment" :> Str("echo")) >>
      [] family = "static_routes" ->
            << ("seq-num" :> JNum(1)) @@ ("dst" :> Str("10.0.0.0/8"))
                   @@ ("gateway" :> Str("192.168.1.1")) @@ ("status" :> Str("enable")),
               ("seq-num" :> JNum(2)) @@ ("device" :> Str("wan1"))
                   @@ ("distance" :> JNum(10)) @@ ("comment" :> Str("default")),
               ("gateway" :> Str("192.168.1.254")) >>
      [] family = "interfaces" ->
            << ("name" :> Str("port1")) @@ ("type" :> Str("physical"))
                   @@ ("status" :> Str("up")) @@ ("ip" :> Str("192.168.1.99 255.255.255.0")),
               ("name" :> Str("wan1")) @@ ("mode" :> Str("dhcp"))
                   @@ ("alias" :> Str("uplink")),
               ("name" :> Str("lo")) @@ ("ip" :> Str("")) >>
      [] family = "virtual_ips" ->
            << ("name" :> Str("vip1")) @@ ("extip" :> Str("203.0.113.5")),
               ("name" :> Str("vip2")),
               ("extip" :> Str("203.0.113.6")) >>

\* the orders in which items are put into a results list
Selections == << << >>, <<1>>, <<2>>, <<3>>, <<1, 2>>, <<2, 3>>, <<3, 1>>, <<1, 2, 3>> >>

\* the responses of a list endpoint: results with the selected items, results
\* null, no results
ListResponses(family) ==
    [i \in 1..Len(Selections) |->
        "results" :> JArr([j \in 1..Len(Selections[i]) |->
                              JObj(FamilyItems(family)[Selections[i][j]])])]
    \o << "results" :> JNull, "status" :> Str("error") >>

(***************************************************************************)
(* The list templates as a state machine: a list response of a family is   *)
(* given, then formatted by the template of the family.                    *)
(***************************************************************************)
ListGiven ==
    /\ devices = EmptyDict
    /\ devices_order = << >>
    /\ next_oid = 0
    /\ removed = {}
    /\ \E family \in ListFamilies :
          \E i \in 1..Len(ListResponses(family)) :
              last = [op |-> "list_response", family |-> family,
                      data |-> ListResponses(family)[i]]

Formatted(family, lines) ==
    /\ last.family = family
    /\ last' = [op |-> "format", family |-> family, data |-> last.data,
                out |-> Returned(lines)]
    /\ UNCHANGED <<devices, devices_order, next_oid, removed>>

FormatFirewallPolicies == Formatted("policies", firewall_policies(last.data))

FormatAddressObjects == Formatted("address_objects", address_objects(last.data))

FormatServiceObjects == Formatted("service_objects", service_objects(last.data))

FormatStaticRoutes == Formatted("static_routes", static_routes(last.data))

FormatInterfaces == Formatted("interfaces", interfaces(last.data))

FormatVirtualIps == Formatted("virtual_ips", virtual_ips(last.data))

ListNext ==
    \/ FormatFirewallPolicies
    \/ FormatAddressObjects
    \/ FormatServiceObjects
    \/ FormatStaticRoutes
    \/ FormatInterfaces
    \/ FormatVirtualIps

SpecLists == ListGiven /\ [][ListNext]_vars

(***************************************************************************)
(* Concurrent calls.  The class holds no lock, so a call of add_device or  *)
(* remove_device that runs beside another call is a sequence of steps: the *)
(* membership test, then the construction and the assignment (or the       *)
(* del).  Between the two steps the other call may take its own.  The      *)
(* calls in progress are kept in last.calls: for each its arguments, its   *)
(* position (pc) and, once finished, its result.                           *)
(***************************************************************************)
\* del self.devices[device_id] on an absent key
KeyError(device_id) ==
    [kind |-> "raise", exc |-> "KeyError", message |-> "'" \o device_id \o "'"]

\* `if device_id in self.devices: raise ValueError(...)` of add_device
add_device_check(m, device_id) ==
    IF device_id \in DOMAIN m.devices THEN AlreadyExists(device_id) ELSE Returned(None)

\* the rest of add_device: the config, the client, the assignment
add_device_insert(m, device_id, host, port, username, password, api_token, vdom, verify_ssl, timeout) ==
    LET device_config == FortiGateDeviceConfig(host, port, username, password,
                                               api_token, vdom, verify_ssl, timeout)
        r == FortiGateAPI(m.next_oid, device_id, device_config)
    IN  IF r.kind = "raise"
        THEN [m |-> m, result |-> r]
        ELSE [m |-> DictSet(m, device_id, r.value), result |-> Returned(None)]

\* `if device_id not in self.devices: raise ValueError(...)` of remove_device
remove_device_check(m, device_id) ==
    IF device_id \notin DOMAIN m.devices THEN NotFound(device_id) ELSE Returned(None)

\* `del self.devices[device_id]`
remove_device_delete(m, device_id) ==
    IF device_id \notin DOMAIN m.devices
    THEN [m |-> m, result |-> KeyError(device_id)]
    ELSE [m |-> DictDel(m, device_id), result |-> Returned(None)]

\* the callers that run side by side
Callers == 1..2

\* credentials of a concurrent add_device: a token, none
ConcurrentCredentials ==
    { k \in RegistryCredentials : k.username = None }

\* the calls a caller can make
MutatingCalls ==
    { [op |-> "add_device", device_id |-> device_id, connection |-> c, credentials |-> k] :
        device_id \in DeviceIds, c \in ConnectionParams, k \in ConcurrentCredentials }
    \cup
    { [op |-> "remove_device", device_id |-> device_id] : device_id \in DeviceIds }

\* a call that has not taken a step
Pending(call) == [call |-> call, pc |-> "start"]

\* a call that has passed its membership test
Checked(call) == [call |-> call, pc |-> "checked"]

\* a call that has returned or raised
Done(call, result) == [call |-> call, pc |-> "done", result |-> result]

\* a server started with at most one device, and two calls arriving together
ConcurrentInit ==
    \E items \in StaticItems(DeviceIds, 1), c1 \in MutatingCalls, c2 \in MutatingCalls :
        LET m == FortiGateManager(items)
        IN  /\ devices = m.devices
            /\ devices_order = m.order
            /\ next_oid = m.next_oid
            /\ removed = {}
            /\ last = [op |-> "calls", before |-> m,
                       calls |-> <<Pending(c1), Pending(c2)>>]

\* caller t is at position pc of a call of op
At(t, op, pc) ==
    /\ last.op = "calls"
    /\ last.calls[t].call.op = op
    /\ last.calls[t].pc = pc

\* caller t moves to the position or the outcome next
Step(t, next) == last' = [last EXCEPT !.calls[t] = next]

AddDeviceCheck ==
    \E t \in Callers :
        LET call == last.calls[t].call
            r == add_device_check(Manager, call.device_id)
        IN  /\ At(t, "add_device", "start")
            /\ Step(t, IF r.kind = "raise" THEN Done(call, r) ELSE Checked(call))
            /\ UNCHANGED <<devices, devices_order, next_oid, removed>>

AddDeviceInsert ==
    \E t \in Callers :
        LET call == last.calls[t].call
            c == call.connection
            k == call.credentials
            out == add_device_insert(Manager, call.device_id, c.host, c.port, k.username,
                                     k.password, k.api_token, c.vdom, c.verify_ssl, c.timeout)
        IN  /\ At(t, "add_device", "checked")
            /\ SetManager(out.m)
            /\ Step(t, Done(call, out.result))
            /\ UNCHANGED removed

RemoveDeviceCheck ==
    \E t \in Callers :
        LET call == last.calls[t].call
            r == remove_device_check(Manager, call.device_id)
        IN  /\ At(t, "remove_device", "start")
            /\ Step(t, IF r.kind = "raise" THEN Done(call, r) ELSE Checked(call))
            /\ UNCHANGED <<devices, devices_order, next_oid, removed>>

RemoveDeviceDelete ==
    \E t \in Callers :
        LET call == last.calls[t].call
            out == remove_device_delete(Manager, call.device_id)
        IN  /\ At(t, "remove_device", "checked")
            /\ SetManager(out.m)
            /\ Step(t, Done(call, out.result))
            /\ UNCHANGED removed

ConcurrentNext ==
    \/ AddDeviceCheck
    \/ AddDeviceInsert
    \/ RemoveDeviceCheck
    \/ RemoveDeviceDelete

SpecConcurrent == ConcurrentInit /\ [][ConcurrentNext]_vars

(***************************************************************************)
(* Reading beside a mutation.  test_all_connections iterates over          *)
(* self.devices.items() and calls test_connection(), an HTTP exchange,     *)
(* inside the loop; a dict iterator remembers the size of the dict when it *)
(* is created and raises RuntimeError from its next step when the size has *)
(* changed.  list_devices copies the keys in one step.  The test_connection *)
(* tool of the HTTP server takes list_devices() first and looks each       *)
(* identifier up again inside a try block.                                 *)
(***************************************************************************)
\* next() of a dict iterator after an insertion or a deletion
SizeChanged ==
    [kind |-> "raise", exc |-> "RuntimeError",
     message |-> "dictionary changed size during iteration"]

\* results[device_id] = value
PutResult(dict, device_id, value) ==
    [k \in (DOMAIN dict) \cup {device_id} |->
        IF k = device_id THEN value ELSE dict[k]]

\* iter(self.devices.items()): the size of the dict, the next index, with
\* results = {}
Iterating(call, m) ==
    [call |-> call, pc |-> "iterating", used |-> Len(m.order), pos |-> 1,
     results |-> EmptyDict]

\* one turn of the loop of test_all_connections: next() of the iterator,
\* then the probe of the session it gave and the assignment to results
test_all_connections_next(at, m, outcome) ==
    IF Len(m.order) # at.used THEN Done(at.call, SizeChanged)
    ELSE IF at.pos > Len(m.order) THEN Done(at.call, Returned(at.results))
    ELSE LET device_id == m.order[at.pos]
             r == test_connection(m.devices[device_id], outcome)
             value == IF r.result.kind = "return" THEN r.result.value ELSE FALSE
         IN  [at EXCEPT !.pos = @ + 1,
                        !.results = PutResult(@, device_id, value)]

\* devices = self.fortigate_manager.list_devices() of the tool, with
\* connection_results = {}
Listed(call, m) ==
    [call |-> call, pc |-> "listed", devices |-> list_devices(m).value, pos |-> 1,
     results |-> EmptyDict]

\* one turn of the loop of the test_connection tool: the lookup and the
\* probe inside try, the entry of the device
tool_test_connection_next(at, m, outcome) ==
    IF at.pos > Len(at.devices)
    THEN Done(at.call, Returned([devices |-> at.results,
                                 total_devices |-> Len(at.devices)]))
    ELSE LET device_id == at.devices[at.pos]
             api_client == get_device(m, device_id)
             entry == IF api_client.kind = "raise"
                      THEN [connected |-> FALSE, status |-> "error",
                            error |-> api_client.message]
                      ELSE LET success == test_connection(api_client.value, outcome).result.value
                           IN  [connected |-> success,
                                status |-> IF success THEN "connected" ELSE "failed"]
         IN  [at EXCEPT !.pos = @ + 1,
                        !.results = PutResult(@, device_id, entry)]

\* the calls that read the registry
ReadingCalls ==
    { [op |-> "test_all_connections"], [op |-> "list_devices"], [op |-> "tool_test_connection"] }

\* a started server, a reading call and a mutating call arriving together
ReadingInit ==
    \E items \in StaticItems(DeviceIds, MaxStatic), c1 \in ReadingCalls, c2 \in MutatingCalls :
        LET m == FortiGateManager(items)
        IN  /\ devices = m.devices
            /\ devices_order = m.order
            /\ next_oid = m.next_oid
            /\ removed = {}
            /\ last = [op |-> "calls", before |-> m,
                       calls |-> <<Pending(c1), Pending(c2)>>]

TestAllBegin ==
    \E t \in Callers :
        /\ At(t, "test_all_connections", "start")
        /\ Step(t, Iterating(last.calls[t].call, Manager))
        /\ UNCHANGED <<devices, devices_order, next_oid, removed>>

TestAllNext ==
    \E t \in Callers, outcome \in ProbeOutcomes :
        /\ At(t, "test_all_connections", "iterating")
        /\ Step(t, test_all_connections_next(last.calls[t], Manager, outcome))
        /\ UNCHANGED <<devices, devices_order, next_oid, removed>>

ListDevicesCall ==
    \E t \in Callers :
        /\ At(t, "list_devices", "start")
        /\ Step(t, Done(last.calls[t].call, list_devices(Manager)))
        /\ UNCHANGED <<devices, devices_order, next_oid, removed>>

ToolTestConnectionBegin ==
    \E t \in Callers :
        /\ At(t, "tool_test_connection", "start")
        /\ Step(t, Listed(last.calls[t].call, Manager))
        /\ UNCHANGED <<devices, devices_order, next_oid, removed>>

ToolTestConnectionNext ==
    \E t \in Callers, outcome \in ProbeOutcomes :
        /\ At(t, "tool_test_connection", "listed")
        /\ Step(t, tool_test_connection_next(last.calls[t], Manager, outcome))
        /\ UNCHANGED <<devices, devices_order, next_oid, removed>>

ReadingNext ==
    \/ AddDeviceCheck
    \/ AddDeviceInsert
    \/ RemoveDeviceCheck
    \/ RemoveDeviceDelete
    \/ TestAllBegin
    \/ TestAllNext
    \/ ListDevicesCall
    \/ ToolTestConnectionBegin
    \/ ToolTestConnectionNext

SpecReading == ReadingInit /\ [][ReadingNext]_vars

(***************************************************************************)
(* The order of list_devices: a server started from a static               *)
(* configuration, with one identifier more than the static configuration   *)
(* can hold, so that a device is added behind the configured ones and any  *)
(* of them is removed.                                                     *)
(***************************************************************************)
OrderIds == {DeviceId(i) : i \in 1..MaxDevices + 1}

\* credentials of the devices added: a token, none
OrderCredentials == ConcurrentCredentials

OrderInit == Started(OrderIds, MaxStatic)

OrderAddDevice == AddDeviceOf(OrderIds, OrderCredentials)

OrderRemoveDevice == RemoveDeviceOf(OrderIds)

OrderNext ==
    \/ OrderAddDevice
    \/ OrderRemoveDevice
    \/ ListDevices

SpecOrder == OrderInit /\ [][OrderNext]_vars

(***************************************************************************)
(* What a call leaves of the session it runs on.  _make_request reads      *)
(* self.base_url, self.config, self.auth_method, self._basic_auth and      *)
(* self.headers and assigns no attribute of self; the vdom of a call goes  *)
(* into the params of that call only.                                      *)
(***************************************************************************)
\* the vdom of the call is kept as the vdom of the session
make_request_self_vdom(api, method, endpoint, params, data, vdom) ==
    [api EXCEPT !.config.vdom = OrElse(vdom, @)]

\* the session after self._make_request(method, endpoint, params, data, vdom)
make_request_self(api, method, endpoint, params, data, vdom) == api

\* the session after self.test_connection()
test_connection_self(api) ==
    make_request_self(api, "GET", <<"monitor", "system", "status">>, None, None, None)

\* self.devices after test_all_connections()
test_all_connections_self(m) ==
    [device_id \in DOMAIN m.devices |-> test_connection_self(m.devices[device_id])]

\* the calls sent on a registered session: one on the session's vdom, one on another
FrameCalls == { c \in Calls : c.method = "GET" }

\* what httpx does with such a call: a JSON answer, a timeout
FrameOutcomes ==
    { o \in ProbeOutcomes :
        \/ o.kind = "response" /\ o.status_code = 200
        \/ o.kind = "exception" /\ o.cause = "connect_timeout" }

FrameInit == Started(DeviceIds, 1)

FrameAddDevice == AddDeviceOf(DeviceIds, OrderCredentials)

FrameRequest ==
    \E device_id \in DOMAIN devices, c \in FrameCalls, outcome \in FrameOutcomes :
        /\ last' = [op |-> "make_request", device_id |-> device_id, call |-> c,
                    outcome |-> outcome,
                    out |-> make_request(devices[device_id], c.method, c.endpoint,
                                         c.params, c.data, c.vdom, outcome)]
        /\ devices' = [devices EXCEPT ![device_id] =
                          make_request_self(@, c.method, c.endpoint, c.params, c.data,
                                            c.vdom)]
        /\ UNCHANGED <<devices_order, next_oid, removed>>

FrameTestConnection ==
    \E device_id \in DOMAIN devices, outcome \in FrameOutcomes :
        /\ last' = [op |-> "test_connection", device_id |-> device_id,
                    outcome |-> outcome,
                    out |-> test_connection(devices[device_id], outcome)]
        /\ devices' = [devices EXCEPT ![device_id] = test_connection_self(@)]
        /\ UNCHANGED <<devices_order, next_oid, removed>>

FrameTestAllConnections ==
    \E outcomes \in [DOMAIN devices -> FrameOutcomes] :
        /\ last' = [op |-> "test_all_connections", outcomes |-> outcomes,
                    out |-> test_all_connections(Manager, outcomes)]
        /\ devices' = test_all_connections_self(Manager)
        /\ UNCHANGED <<devices_order, next_oid, removed>>

FrameNext ==
    \/ FrameAddDevice
    \/ RemoveDevice
    \/ GetDevice
    \/ ListDevices
    \/ FrameRequest
    \/ FrameTestConnection
    \/ FrameTestAllConnections

SpecFrame == FrameInit /\ [][FrameNext]_vars

(***************************************************************************)
(* Credentials and requests: one identifier registered with every          *)
(* combination of credentials, and requests sent on the session built.     *)
(***************************************************************************)
AuthNext ==
    \/ Construct
    \/ RemoveDevice
    \/ FrameRequest

SpecAuth == Unstarted /\ [][AuthNext]_vars

(***************************************************************************)
(* The health tool of the HTTP server: the devices of list_devices() are   *)
(* looked up and probed one after the other; the answer holds the status   *)
(* of the server, the number of registered devices and the state of the    *)
(* connection of each.  The timestamp of the answer is left out.           *)
(***************************************************************************)
\* lines 292-299: the loop over the devices; the entries written and
\* whether the except branch set the status to degraded
RECURSIVE health_connections(_, _, _)
health_connections(ids, m, outcomes) ==
    IF ids = << >> THEN [connections |-> EmptyParams, degraded |-> FALSE]
    ELSE LET device_id == ids[1]
             api_client == get_device(m, device_id)
             probe == IF api_client.kind = "raise" THEN api_client
                      ELSE test_connection(api_client.value, outcomes[device_id]).result
             entry == IF probe.kind = "raise" THEN "error"
                      ELSE IF probe.value THEN "connected" ELSE "disconnected"
             rest == health_connections(Tail(ids), m, outcomes)
         IN  [connections |-> (device_id :> entry) @@ rest.connections,
              degraded |-> probe.kind = "raise" \/ rest.degraded]

\* the health tool
health(m, outcomes) ==
    LET loop == health_connections(list_devices(m).value, m, outcomes)
    IN  [status |-> IF loop.degraded THEN "degraded" ELSE "ok",
         server |-> "FortiGateMCP-HTTP",
         registered_devices |-> Cardinality(DOMAIN m.devices),
         device_connections |-> loop.connections]

Health ==
    \E outcomes \in [DOMAIN devices -> ProbeOutcomes] :
        /\ last' = [op |-> "health", outcomes |-> outcomes,
                    out |-> health(Manager, outcomes)]
        /\ UNCHANGED <<devices, devices_order, next_oid, removed>>

HealthNext ==
    \/ RemoveDevice
    \/ Health

SpecHealth == Init /\ [][HealthNext]_vars

(***************************************************************************)
(* Claims.                                                                 *)
(***************************************************************************)
\* what the spec calls DuplicateDevice, UnknownDevice and InvalidConfig are
\* the three ValueErrors of the registry
DuplicateDevice(device_id) == AlreadyExists(device_id)
UnknownDevice(device_id) == NotFound(device_id)

\* a credential is set when it is neither None nor empty
TokenSet(config) == Truthy(config.api_token)
PairSet(config) == Truthy(config.username) /\ Truthy(config.password)

\* C1: add_device(id, config) on an identifier that is not registered and
\* whose session can be built returns, and get_device(id) then returns a
\* session holding exactly that config (host, port, vdom, verify_ssl,
\* timeout, credentials); add_device on a registered identifier raises
\* "already exists" and leaves the registry, with the same session object
\* (same identity, same config), as it was.
C1_RegisterThenGet ==
    [][ last'.op = "add_device" =>
          LET device_id == last'.device_id
          IN  IF device_id \in DOMAIN devices
              THEN /\ last'.result = DuplicateDevice(device_id)
                   /\ devices' = devices
                   /\ devices_order' = devices_order
                   /\ get_device(Manager', device_id) = Returned(devices[device_id])
              ELSE last'.result.kind = "return" =>
                   /\ get_device(Manager', device_id).kind = "return"
                   /\ get_device(Manager', device_id).value.config = last'.config
                   /\ get_device(Manager', device_id).value.device_id = device_id
                   /\ \A k \in DOMAIN devices : devices[k].oid # devices'[device_id].oid
      ]_vars

\* C1 witness: a register of a registered identifier, with another config
\* than the registered one, has just failed
C1_Witness ==
    /\ last.op = "add_device"
    /\ last.result = DuplicateDevice(last.device_id)
    /\ last.device_id \in DOMAIN devices
    /\ devices[last.device_id].config # last.config
    /\ TokenSet(last.config)

\* C2: remove_device of an identifier that is not registered raises "not
\* found"; from a successful remove_device(id) until the next successful
\* add_device(id), every get_device(id) raises "not found".
C2_RemoveThenGet ==
    [][ /\ last'.op = "remove_device" =>
            IF last'.device_id \in DOMAIN devices
            THEN last'.result.kind = "return" /\ last'.device_id \notin DOMAIN devices'
            ELSE last'.result = UnknownDevice(last'.device_id)
        /\ (last'.op = "get_device" /\ last'.device_id \in removed) =>
            last'.result = UnknownDevice(last'.device_id)
      ]_vars

\* C2 witness: a get_device of a removed identifier has just failed
C2_Witness ==
    /\ last.op = "get_device"
    /\ last.device_id \in removed
    /\ last.result = UnknownDevice(last.device_id)

\* C3: constructing the session of a config with only api_token set gives
\* auth mode token; with only username and password set, auth mode basic;
\* with neither a token nor a complete username/password pair the
\* construction raises the invalid-config ValueError and no session exists.
C3_AuthMode ==
    (last.op = "add_device" /\ last.result # DuplicateDevice(last.device_id)) =>
        LET config == last.config
            device_id == last.device_id
        IN  /\ (TokenSet(config) /\ ~Truthy(config.username) /\ ~Truthy(config.password)) =>
                /\ last.result.kind = "return"
                /\ device_id \in DOMAIN devices
                /\ devices[device_id].auth_method = "token"
            /\ (~TokenSet(config) /\ PairSet(config)) =>
                /\ last.result.kind = "return"
                /\ device_id \in DOMAIN devices
                /\ devices[device_id].auth_method = "basic"
            /\ (~TokenSet(config) /\ ~PairSet(config)) =>
                /\ last.result = InvalidConfig(device_id)
                /\ device_id \notin DOMAIN devices

\* C3 witness: the construction of a config with a username, an empty
\* password and no token has just failed
C3_Witness ==
    /\ last.op = "add_device"
    /\ ~TokenSet(last.config)
    /\ Truthy(last.config.username)
    /\ last.config.password = Some("")
    /\ last.result = InvalidConfig(last.device_id)
    /\ last.device_id \notin DOMAIN devices

\* the identifiers of items, in order, whose session construction succeeds
RECURSIVE Constructible(_)
Constructible(items) ==
    IF items = << >> THEN << >>
    ELSE IF TokenSet(items[1][2]) \/ PairSet(items[1][2])
         THEN <<items[1][1]>> \o Constructible(Tail(items))
         ELSE Constructible(Tail(items))

\* C4: the manager built from a static configuration holds exactly the
\* identifiers whose session construction succeeds, in configuration order,
\* each with the config given for it; a device whose construction fails is
\* left out, whatever is listed before or after it.
C4_BulkConstruction ==
    last.op = "init" =>
        /\ devices_order = Constructible(last.items)
        /\ DOMAIN devices = Range(Constructible(last.items))
        /\ \A i \in 1..Len(last.items) :
              last.items[i][1] \in DOMAIN devices =>
                  devices[last.items[i][1]].config = last.items[i][2]

\* C4 witness: three entries, the middle one without credentials, the outer
\* two registered
C4_Witness ==
    /\ last.op = "init"
    /\ Len(last.items) = 3
    /\ ~TokenSet(last.items[2][2]) /\ ~PairSet(last.items[2][2])
    /\ DOMAIN devices = {last.items[1][1], last.items[3][1]}

(***************************************************************************)
(* Claims about _make_request and test_connection.  In the words of the    *)
(* spec, ApiError is a FortiGateAPIError with a status code and            *)
(* NetworkError a FortiGateAPIError without one.                           *)
(***************************************************************************)
IsApiError(r) ==
    r.kind = "raise" /\ r.exc = "FortiGateAPIError" /\ r.status_code # None

IsNetworkError(r) ==
    r.kind = "raise" /\ r.exc = "FortiGateAPIError" /\ r.status_code = None

Requested == last.op = "make_request"

ErrorAnswered ==
    Requested /\ last.outcome.kind = "response" /\ last.outcome.status_code >= 400

Prefix(status_code) == "API request failed: " \o ToString(status_code)

\* the body is a JSON object with an `error` field
HasErrorField(body) ==
    body.json # None /\ body.json[1].t = "obj" /\ "error" \in DOMAIN body.json[1].v

\* the body is valid JSON in which Python's `"error" in` finds nothing: an
\* object without that field, an array without the element "error", a
\* string that does not contain "error"
LacksError(body) ==
    /\ body.json # None
    /\ \/ body.json[1].t = "obj" /\ "error" \notin DOMAIN body.json[1].v
       \/ body.json[1].t = "arr" /\ JStr(ErrorChars) \notin Range(body.json[1].v)
       \/ body.json[1].t = "str" /\ ~IsSubSeq(ErrorChars, body.json[1].v)

\* C5 as stated: a status >= 400 raises an ApiError with that status and the
\* device identifier, whose message ends with the `error` field when the
\* body is JSON with an `error` field and with the raw body text otherwise.
C5_AsStated ==
    ErrorAnswered =>
        LET r == last.out.result
            body == last.outcome.body
        IN  /\ IsApiError(r)
            /\ r.status_code = Some(last.outcome.status_code)
            /\ r.device_id = Some(last.device_id)
            /\ r.message =
                  IF HasErrorField(body)
                  THEN Prefix(last.outcome.status_code) \o " - "
                       \o PyStr(body.json[1].v["error"])
                  ELSE Prefix(last.outcome.status_code) \o " - " \o body.text

\* C5 amended: a status >= 400 raises an ApiError with that status and the
\* device identifier; its message ends with the `error` field when the body
\* is a JSON object with an `error` field, has nothing appended when the
\* body is valid JSON in which no `error` is found, and ends with the raw
\* body text otherwise.
C5_ErrorMessage ==
    ErrorAnswered =>
        LET r == last.out.result
            body == last.outcome.body
        IN  /\ IsApiError(r)
            /\ r.status_code = Some(last.outcome.status_code)
            /\ r.device_id = Some(last.device_id)
            /\ r.message =
                  IF HasErrorField(body)
                  THEN Prefix(last.outcome.status_code) \o " - "
                       \o PyStr(body.json[1].v["error"])
                  ELSE IF LacksError(body)
                  THEN Prefix(last.outcome.status_code)
                  ELSE Prefix(last.outcome.status_code) \o " - " \o body.text

\* C5 witness: a 403 whose body is a JSON object without an `error` field
\* has raised an ApiError whose message is the prefix alone
C5_Witness ==
    /\ ErrorAnswered
    /\ last.outcome.status_code = 403
    /\ last.outcome.body.json # None
    /\ last.outcome.body.json[1].t = "obj"
    /\ "error" \notin DOMAIN last.outcome.body.json[1].v
    /\ last.out.result.message = "API request failed: 403"

\* C6: a DNS failure, a TLS failure, a connect timeout or a read timeout
\* raises a FortiGateAPIError with the device identifier and no status code;
\* a timeout is never raised as another exception class nor with a status.
C6_NetworkError ==
    (Requested /\ last.outcome.kind = "exception"
       /\ last.outcome.cause \in {"dns", "tls", "connect_timeout", "read_timeout"}) =>
        /\ IsNetworkError(last.out.result)
        /\ ~IsApiError(last.out.result)
        /\ last.out.result.device_id = Some(last.device_id)

\* C6 witness: a read timeout has been raised as a NetworkError
C6_Witness ==
    /\ Requested
    /\ last.outcome.kind = "exception"
    /\ last.outcome.cause = "read_timeout"
    /\ IsNetworkError(last.out.result)

Classified(r) == r.kind = "return" \/ IsApiError(r) \/ IsNetworkError(r)

C9_OneRecord ==
    (Requested /\ Classified(last.out.result)) =>
        /\ Len(last.out.logs) = 1
        /\ last.out.logs[1].method = last.call.method
        /\ last.out.logs[1].endpoint = EndpointText(last.call.endpoint)
        /\ last.out.logs[1].status_code =
              IF last.outcome.kind = "response" THEN Some(last.outcome.status_code)
              ELSE None

\* C9 witness: a call answered 403 has logged one record with status 403
C9_Witness ==
    /\ ErrorAnswered
    /\ last.outcome.status_code = 403
    /\ Len(last.out.logs) = 1
    /\ last.out.logs[1].status_code = Some(403)

\* C10: test_connection always returns a boolean and never raises: True
\* exactly when its GET of monitor/system/status is answered with a status
\* below 400, False on an ApiError, a NetworkError or any other exception.
C10_TestConnection ==
    last.op = "test_connection" =>
        /\ last.out.result.kind = "return"
        /\ last.out.result.value \in BOOLEAN
        /\ last.out.result.value =
              (last.outcome.kind = "response" /\ last.outcome.status_code < 400)
        /\ \A i \in 1..Len(last.out.sent) :
              /\ last.out.sent[i].method = "GET"
              /\ last.out.sent[i].url =
                    devices[last.device_id].base_url \o "/monitor/system/status"

\* C10 witness: a probe that met an exception other than a RequestError has
\* returned False
C10_Witness ==
    /\ last.op = "test_connection"
    /\ last.outcome.kind = "exception"
    /\ ~IsRequestError(last.outcome.exc)
    /\ last.out.result = Returned(FALSE)

(***************************************************************************)
(* Claims about test_all_connections and the resource operations.          *)
(***************************************************************************)
\* the probe of a device succeeds when httpx answers it with a status below 400
Answered(outcome) == outcome.kind = "response" /\ outcome.status_code < 400

\* C11: test_all_connections returns a dict whose keys are exactly the
\* registered identifiers, each value the boolean outcome of that device's
\* connection test; test_connection is called once on every session, in
\* registry order, and a failing probe gives False for its device while
\* the other devices keep their entries.
C11_TestAll ==
    last.op = "test_all_connections" =>
        /\ last.out.result.kind = "return"
        /\ DOMAIN last.out.result.value = DOMAIN devices
        /\ \A device_id \in DOMAIN devices :
              last.out.result.value[device_id] = Answered(last.outcomes[device_id])
        /\ last.out.probed = devices_order

\* C11 witness: two devices probed, the first one timing out, the second
\* one answering
C11_Witness ==
    /\ last.op = "test_all_connections"
    /\ Len(devices_order) = 2
    /\ last.outcomes[devices_order[1]].kind = "exception"
    /\ last.out.result.value[devices_order[1]] = FALSE
    /\ last.out.result.value[devices_order[2]] = TRUE

\* C12: a resource operation on an identifier that is not registered fails
\* with the registry's "not found" error, whatever the family and the
\* operation; no request is sent, and the registry holds no session for
\* the identifier afterwards.
C12_UnknownDevice ==
    [][ (last'.op = "resource_operation" /\ last'.device_id \notin DOMAIN devices) =>
          /\ last'.out.result = UnknownDevice(last'.device_id)
          /\ last'.out.sent = << >>
          /\ devices' = devices
          /\ devices_order' = devices_order
          /\ next_oid' = next_oid
      ]_vars

\* C12 witness: with another device registered, an update on an identifier
\* that is not registered has just failed
C12_Witness ==
    /\ last.op = "resource_operation"
    /\ last.operation = "update"
    /\ devices # EmptyDict
    /\ last.device_id \notin DOMAIN devices
    /\ last.out.result = UnknownDevice(last.device_id)
    /\ last.out.sent = << >>

\* the requests sent by the latest call of a session method
SessionCalled == last.op \in {"make_request", "test_connection"}

\* the vdom argument of the latest call; test_connection passes none
VdomOverride == IF last.op = "make_request" THEN last.call.vdom ELSE None

\* the query parameters the caller gave with the latest call
OwnParams ==
    IF last.op = "make_request" /\ last.call.params # None THEN last.call.params[1]
    ELSE EmptyParams

\* C13: every request sent carries the query parameter vdom, whose value is
\* the vdom argument of the call when one is given (an empty string counts
\* as not given) and the vdom of the session's config otherwise, for every
\* method and endpoint; the caller's other query parameters are sent as
\* given.
C13_Vdom ==
    SessionCalled =>
        \A i \in 1..Len(last.out.sent) :
            LET request == last.out.sent[i]
            IN  /\ "vdom" \in DOMAIN request.params
                /\ request.params["vdom"] =
                      IF Truthy(VdomOverride) THEN VdomOverride[1]
                      ELSE devices[last.device_id].config.vdom
                /\ \A k \in (DOMAIN OwnParams) \ {"vdom"} :
                      k \in DOMAIN request.params /\ request.params[k] = OwnParams[k]

\* C13 witness: a PUT whose caller gave a vdom among its own query
\* parameters and no vdom argument was sent with the session's vdom
C13_Witness ==
    /\ last.op = "make_request"
    /\ last.call.method = "PUT"
    /\ "vdom" \in DOMAIN OwnParams
    /\ last.call.vdom = None
    /\ Len(last.out.sent) = 1
    /\ last.out.sent[1].params["vdom"] = "vd1"

\* the request carries the bearer header of the token and no basic credentials
BearerOnly(request, config) ==
    /\ "Authorization" \in DOMAIN request.headers
    /\ request.headers["Authorization"] = "Bearer " \o config.api_token[1]
    /\ request.auth = None

\* the request carries the username and password as basic credentials and
\* no Authorization header
BasicOnly(request, config) ==
    /\ "Authorization" \notin DOMAIN request.headers
    /\ request.auth = Some(<<config.username[1], config.password[1]>>)

\* C14: every request of a session carries the authentication of the mode
\* resolved from the session's config: with a token configured, the header
\* Authorization: Bearer <token> and no basic credentials; with only a
\* username and a password configured, these as basic credentials and no
\* Authorization header.  A call changes neither the session nor its
\* config, so the mode and the credentials are those of every other call.
C14_Authentication ==
    [][ (last'.op \in {"make_request", "test_connection"}) =>
          /\ devices' = devices
          /\ \A i \in 1..Len(last'.out.sent) :
                LET request == last'.out.sent[i]
                    config == devices[last'.device_id].config
                IN  IF TokenSet(config) THEN BearerOnly(request, config)
                    ELSE BasicOnly(request, config)
      ]_vars

\* C14 witness: a session configured with a token and with a username and
\* password has sent a request with the bearer header only
C14_Witness ==
    /\ last.op = "make_request"
    /\ TokenSet(devices[last.device_id].config)
    /\ PairSet(devices[last.device_id].config)
    /\ Len(last.out.sent) = 1
    /\ BearerOnly(last.out.sent[1], devices[last.device_id].config)

\* the collection endpoint of a family, as the spec writes it
CollectionText(family) ==
    CASE family = "firewall_policy" -> "cmdb/firewall/policy"
      [] family = "address_object" -> "cmdb/firewall/address"
      [] family = "service_object" -> "cmdb/firewall.service/custom"
      [] family = "static_route" -> "cmdb/router/static"

\* the method and the path the claim gives an operation
MethodOf(operation) ==
    CASE operation \in {"list", "getDetail"} -> "GET"
      [] operation = "create" -> "POST"
      [] operation = "update" -> "PUT"
      [] operation = "delete" -> "DELETE"

PathOf(family, operation, key) ==
    IF operation \in {"list", "create"} THEN CollectionText(family)
    ELSE CollectionText(family) \o "/" \o key

\* the latest call was a resource operation on a registered device, and
\* httpx did not refuse the URL before sending
Dispatched ==
    /\ last.op = "resource_operation"
    /\ last.device_id \in DOMAIN devices
    /\ (last.outcome.kind = "exception" => IsRequestError(last.outcome.exc))

\* one request was sent, with the method and path of the operation
SentAsMapped ==
    /\ Len(last.out.sent) = 1
    /\ last.out.sent[1].method = MethodOf(last.operation)
    /\ last.out.sent[1].url =
          devices[last.device_id].base_url \o "/"
              \o PathOf(last.family, last.operation, last.args.key)

NamesOf(policy, key) ==
    LET items == get_list(policy, key)
    IN  { IF items[i].t = "obj" THEN items[i].v["name"].v ELSE items[i].v :
            i \in { j \in 1..Len(items) :
                       \/ items[j].t = "str"
                       \/ items[j].t = "obj" /\ "name" \in DOMAIN items[j].v } }

Analyzed == last.op = "analyze_policy_security"

NoAntivirus(policy) == "av-profile" \notin DOMAIN policy \/ policy["av-profile"] = Str("")
NoSensor(policy) == "ips-sensor" \notin DOMAIN policy \/ policy["ips-sensor"] = Str("")
NotLogged(policy) == "logtraffic" \notin DOMAIN policy \/ policy["logtraffic"] # Str("all")

\* the itemised sum, a name containing a word when it holds it in the
\* letter case given (Exact) or in any letter case
ItemisedSum(policy, Fold(_)) ==
    (IF Chars("all") \in NamesOf(policy, "srcaddr") THEN 3 ELSE 0)
    + (IF Chars("all") \in NamesOf(policy, "dstaddr") THEN 2 ELSE 0)
    + (IF Chars("ALL") \in NamesOf(policy, "service") THEN 2 ELSE 0)
    + (IF NotLogged(policy) THEN 1 ELSE 0)
    + (IF NoAntivirus(policy) THEN 1 ELSE 0)
    + (IF NoSensor(policy) THEN 1 ELSE 0)
    + (IF /\ \E n \in NamesOf(policy, "srcintf") : IsSubSeq(Chars("wan"), Fold(n))
          /\ \E n \in NamesOf(policy, "dstintf") :
                IsSubSeq(Chars("internal"), Fold(n)) \/ IsSubSeq(Chars("lan"), Fold(n))
          /\ NoSensor(policy)
       THEN 2 ELSE 0)

Exact(chars) == chars

\* C16 as stated: the risk score is min(10, S), the interface names
\* containing 'wan', 'internal' or 'lan' as written.
C16_AsStated ==
    Analyzed =>
        /\ last.out.risk_score \in 0..10
        /\ last.out.risk_score = min(10, ItemisedSum(last.policy, Exact))

\* C16: the risk score of a policy is an integer in 0..10 equal to
\* min(10, S), S being the sum of +3 for a source address named all, +2 for
\* a destination address named all, +2 for a service named ALL, +1 for
\* logtraffic other than all, +1 for no antivirus profile, +1 for no IPS
\* sensor, and +2 for a source interface whose name contains 'wan' and a
\* destination interface whose name contains 'internal' or 'lan', in any
\* letter case, with no IPS sensor; no other attribute contributes.
C16_RiskScore ==
    Analyzed =>
        /\ last.out.risk_score \in 0..10
        /\ last.out.risk_score = min(10, ItemisedSum(last.policy, lower))

\* C16 witness: a policy from an interface WAN to an interface VLAN10 with
\* every check found has the score 10, its points adding up to 12
C16_Witness ==
    /\ Analyzed
    /\ Chars("WAN") \in NamesOf(last.policy, "srcintf")
    /\ Chars("VLAN10") \in NamesOf(last.policy, "dstintf")
    /\ ItemisedSum(last.policy, lower) = 12
    /\ last.out.risk_score = 10

Recommended == last.op = "get_policy_recommendations"

\* a source interface leads to a destination interface as in the last
\* check of the scoring function, with no IPS sensor
WanToLanUnprotected(policy) ==
    /\ \E n \in NamesOf(policy, "srcintf") : IsSubSeq(Chars("wan"), lower(n))
    /\ \E n \in NamesOf(policy, "dstintf") :
          IsSubSeq(Chars("internal"), lower(n)) \/ IsSubSeq(Chars("lan"), lower(n))
    /\ NoSensor(policy)

\* the checks of the scoring function that a policy violates, in its order
ViolatedChecks(policy) ==
    Advise(Chars("all") \in NamesOf(policy, "srcaddr"), "source all")
    \o Advise(Chars("all") \in NamesOf(policy, "dstaddr"), "destination all")
    \o Advise(Chars("ALL") \in NamesOf(policy, "service"), "service ALL")
    \o Advise(NotLogged(policy), "logging")
    \o Advise(NoAntivirus(policy), "antivirus")
    \o Advise(NoSensor(policy), "IPS")
    \o Advise(WanToLanUnprotected(policy), "WAN-to-LAN without IPS")

\* C17 as stated: the list has one advisory per violated check of the
\* scoring function and no other, so as many advisories as violated checks.
C17_AsStated ==
    Recommended => Len(last.out) = Len(ViolatedChecks(last.policy))

Missing(policy, key) == key \notin DOMAIN policy \/ policy[key] = Str("")

\* C17: the recommendation list holds, in this order, one advisory for
\* each of these that applies to the policy and nothing else: a source
\* address named all, a service named ALL, logtraffic other than all, no
\* antivirus profile, no IPS sensor, no application-control profile, no
\* web-filter profile, and NAT not set on an accept policy with a
\* destination interface whose name contains 'wan' in any letter case.  A
\* destination address named all and WAN-to-LAN traffic without IPS have
\* no advisory.
C17_Recommendations ==
    Recommended =>
        last.out =
            Advise(Chars("all") \in NamesOf(last.policy, "srcaddr"),
                   "Kaynak adresini daha spesifik hale getirin (belirli IP araliklari)")
            \o Advise(Chars("ALL") \in NamesOf(last.policy, "service"),
                      "Servis tanimini spesifik portlarla sinirlayin")
            \o Advise(NotLogged(last.policy),
                      "Trafik loglamasini etkinlestirin (security ve utm)")
            \o Advise(NoAntivirus(last.policy), "Antivirus profili ekleyin")
            \o Advise(NoSensor(last.policy), "IPS sensoru ekleyin")
            \o Advise(Missing(last.policy, "application-list"),
                      "Uygulama kontrolu profili ekleyin")
            \o Advise(Missing(last.policy, "webfilter-profile"),
                      "Web filtreleme profili ekleyin")
            \o Advise(/\ "action" \in DOMAIN last.policy
                      /\ last.policy["action"] = Str("accept")
                      /\ Missing(last.policy, "nat")
                      /\ \E n \in NamesOf(last.policy, "dstintf") :
                            IsSubSeq(Chars("wan"), lower(n)),
                      "Internete cikis icin NAT'i etkinlestirin")

\* C17 witness: a policy whose only violated check is destination all got
\* one advisory, the one for the application-control profile it lacks
C17_Witness ==
    /\ Recommended
    /\ ViolatedChecks(last.policy) = <<"destination all">>
    /\ last.out = <<"Uygulama kontrolu profili ekleyin">>

Detailed == last.op = "firewall_policy_detail"

\* the policy that a detail response holds
DetailPolicy ==
    IF last.policy_data["results"].t = "arr" THEN last.policy_data["results"].v[1].v
    ELSE last.policy_data["results"].v

\* the latest detail call rendered a policy
Rendered ==
    /\ Detailed
    /\ "results" \in DOMAIN last.policy_data
    /\ PyTruthy(last.policy_data["results"])
    /\ last.out.kind = "return"

\* a collection was supplied: a response holding a results list
Supplied(objects) == objects # None /\ "results" \in DOMAIN objects[1]

\* the names of the objects of a supplied collection
CollectionNames(objects) ==
    {objects[1]["results"][i]["name"].v : i \in 1..Len(objects[1]["results"])}

\* the lines of the output from the line `from` up to the line `to`
Section(lines, from, to) ==
    LET a == CHOOSE i \in 1..Len(lines) : lines[i] = from
        b == CHOOSE i \in 1..Len(lines) : lines[i] = to
    IN  {lines[i] : i \in a..b}

\* every name of the policy's list under key without a match in the
\* supplied collection has its line marked unresolved in the section
MarkedUnresolved(key, objects, from, to) ==
    Supplied(objects) =>
        \A n \in NamesOf(DetailPolicy, key) :
            n \notin CollectionNames(objects) =>
                ("  - " \o Join(n, "") \o ": Cozumlenemedi")
                    \in Section(last.out.value, from, to)

\* C18: in the detail of a policy, every name of srcaddr, dstaddr or
\* service that has no object of exactly that name in the supplied address
\* (respectively service) collection has a line marking it unresolved in
\* the section of its list, also when the supplied collection is empty.
C18_Unresolved ==
    Rendered =>
        /\ MarkedUnresolved("srcaddr", last.address_objects,
                            "## **Kaynak (Source)**", "## **Hedef (Destination)**")
        /\ MarkedUnresolved("dstaddr", last.address_objects,
                            "## **Hedef (Destination)**", "## **Servisler**")
        /\ MarkedUnresolved("service", last.service_objects,
                            "## **Servisler**", "## **Aksiyon ve Guvenlik**")

\* C18 witness: with the empty address collection supplied, the source
\* address all of a policy is marked unresolved
C18_Witness ==
    /\ Rendered
    /\ last.address_objects = Some("results" :> << >>)
    /\ Chars("all") \in NamesOf(DetailPolicy, "srcaddr")
    /\ "  - all: Cozumlenemedi"
           \in Section(last.out.value, "## **Kaynak (Source)**", "## **Hedef (Destination)**")

NotFoundText == <<"Policy not found on device " \o last.device_id>>

\* the results of the detail response are missing or empty: null, an empty
\* list, an empty object
NoResults ==
    \/ "results" \notin DOMAIN last.policy_data
    \/ last.policy_data["results"].t = "null"
    \/ last.policy_data["results"].t = "arr" /\ last.policy_data["results"].v = << >>
    \/ last.policy_data["results"].t = "obj" /\ DOMAIN last.policy_data["results"].v = {}

\* the results of the detail response are the one-element list [P]
OneElement ==
    /\ ~NoResults
    /\ last.policy_data["results"].t = "arr"
    /\ Len(last.policy_data["results"].v) = 1

Frames(text, prefix, suffix) ==
    /\ Len(text) >= Len(prefix) + Len(suffix)
    /\ SubSeq(text, 1, Len(prefix)) = prefix
    /\ SubSeq(text, Len(text) - Len(suffix) + 1, Len(text)) = suffix

\* the latest call formatted the empty collection {"results": []}
EmptyFormatted ==
    /\ last.op = "format"
    /\ last.data = ("results" :> JArr(<< >>))

Alone(m, call) ==
    IF call.op = "add_device"
    THEN add_device(m, call.device_id, call.connection.host, call.connection.port,
                    call.credentials.username, call.credentials.password,
                    call.credentials.api_token, call.connection.vdom,
                    call.connection.verify_ssl, call.connection.timeout)
    ELSE remove_device(m, call.device_id)

\* the registry as its callers see it: the identifiers in order, and the
\* config of the session of each
Registry(m) ==
    [order |-> m.order, configs |-> [k \in DOMAIN m.devices |-> m.devices[k].config]]

\* the results of the two calls and the registry after them are those of
\* the call `first` run to its end and then the call `second`
InOrder(first, second) ==
    LET a == Alone(last.before, last.calls[first].call)
        b == Alone(a.m, last.calls[second].call)
    IN  /\ last.calls[first].result = a.result
        /\ last.calls[second].result = b.result
        /\ Registry(Manager) = Registry(b.m)

\* both calls are finished
BothDone == last.op = "calls" /\ \A t \in Callers : last.calls[t].pc = "done"

\* both calls name the same identifier, and they are two add_device calls
\* or an add_device and a remove_device
SameIdentifier ==
    /\ last.calls[1].call.device_id = last.calls[2].call.device_id
    /\ \E t \in Callers : last.calls[t].call.op = "add_device"

\* C21: when two add_device calls of the same identifier, or an add_device
\* and a remove_device of the same identifier, run concurrently, their
\* results and the registry after them are those of one of the two
\* sequential orders.
C21_Atomic ==
    (BothDone /\ SameIdentifier) => (InOrder(1, 2) \/ InOrder(2, 1))

\* the reading call is finished
ReadDone == last.op = "calls" /\ last.calls[1].pc = "done"

\* the identifiers registered when the calls arrived and still registered
StayRegistered == (DOMAIN last.before.devices) \cap (DOMAIN devices)

\* the value returned holds an entry for the identifier: a boolean of
\* test_all_connections, a `connected` boolean of the tool, a member of the
\* list of list_devices
HasEntry(op, value, device_id) ==
    CASE op = "test_all_connections" ->
            device_id \in DOMAIN value /\ value[device_id] \in BOOLEAN
      [] op = "tool_test_connection" ->
            /\ device_id \in DOMAIN value.devices
            /\ value.devices[device_id].connected \in BOOLEAN
      [] op = "list_devices" -> device_id \in Range(value)

\* C22: a test_all_connections, a test_connection tool call or a
\* list_devices that runs beside an add_device or a remove_device returns
\* (it raises nothing) and its value has an entry for every identifier that
\* is registered from before the call to after it.
C22_SafeReads ==
    ReadDone =>
        /\ last.calls[1].result.kind = "return"
        /\ \A device_id \in StayRegistered :
              HasEntry(last.calls[1].call.op, last.calls[1].result.value, device_id)

\* the step is an add_device or a remove_device that returned
Mutated == last'.op \in {"add_device", "remove_device"} /\ last'.result.kind = "return"

\* the sequence holds every member of the set once and nothing else
Enumerates(seq, set) == Range(seq) = set /\ Len(seq) = Cardinality(set)

\* C23: list_devices returns every registered identifier exactly once and
\* no other; what it returns changes only by an add_device or a
\* remove_device that succeeds, and such a call leaves the identifiers
\* other than its own in the same relative order.
C23_ListOrder ==
    [][/\ last'.op = "list_devices" =>
              /\ last'.result.kind = "return"
              /\ Enumerates(last'.result.value, DOMAIN devices')
       /\ ~Mutated => list_devices(Manager)' = list_devices(Manager)
       /\ Mutated =>
              Without(list_devices(Manager)'.value, last'.device_id)
                  = Without(list_devices(Manager).value, last'.device_id)]_vars

\* C23 witness: after the first of three registered devices was removed,
\* list_devices gave the two others in their former order
C23_Witness ==
    /\ last.op = "list_devices"
    /\ last.result.value = <<DeviceId(2), DeviceId(3)>>
    /\ DeviceId(1) \in removed

\* the step is a registry call that raised
Failed ==
    /\ last'.op \in {"add_device", "remove_device", "get_device"}
    /\ last'.result.kind = "raise"

\* the failure of the call is one of those of its operation
Expected ==
    CASE last'.op = "add_device" ->
            \/ last'.result = DuplicateDevice(last'.device_id)
            \/ /\ last'.result = InvalidConfig(last'.device_id)
               /\ ~TokenSet(last'.config) /\ ~PairSet(last'.config)
      [] OTHER -> last'.result = UnknownDevice(last'.device_id)

\* C24: an add_device that raises (the identifier exists, or the config
\* has neither a token nor a username with a password), a remove_device or
\* a get_device that raises (the identifier is unknown) leaves the
\* registry, its identifiers, their order and their sessions, as it was;
\* no registered session has a config without credentials.
C24_FailureKeepsRegistry ==
    [][/\ Failed => /\ Expected
                    /\ devices' = devices
                    /\ devices_order' = devices_order
       /\ \A device_id \in DOMAIN devices' :
              \/ TokenSet(devices'[device_id].config)
              \/ PairSet(devices'[device_id].config)]_vars

\* C24 witness: add_device with a username and no password raised, and the
\* registry still holds its devices and not the new one
C24_Witness ==
    /\ last.op = "add_device"
    /\ last.result = InvalidConfig(last.device_id)
    /\ last.config.username # None
    /\ last.device_id \notin DOMAIN devices
    /\ devices # EmptyDict

\* the identifiers other than the one the call names
Others(device_id) == ((DOMAIN devices) \cup (DOMAIN devices')) \ {device_id}

\* C25: add_device(id) and remove_device(id) leave every other identifier
\* registered with the same session; get_device, list_devices,
\* _make_request, test_connection and test_all_connections, whatever their
\* outcome, leave every identifier registered with the same session, whose
\* config, base URL and authentication mode are those it was built with.
C25_Frame ==
    [][IF last'.op \in {"add_device", "remove_device"}
       THEN \A device_id \in Others(last'.device_id) :
                /\ device_id \in DOMAIN devices
                /\ device_id \in DOMAIN devices'
                /\ devices'[device_id] = devices[device_id]
       ELSE /\ devices' = devices
            /\ devices_order' = devices_order]_vars

\* C25 witness: with two devices registered, a request sent to one of them
\* on a vdom that is not its own
C25_Witness ==
    /\ last.op = "make_request"
    /\ Cardinality(DOMAIN devices) = 2
    /\ last.call.vdom = Some("vd2")
    /\ last.out.sent[1].params["vdom"] = "vd2"
    /\ devices[last.device_id].config.vdom # "vd2"

\* the config of the latest add_device with its username and password
\* taken away
WithoutPair(config) == [config EXCEPT !.username = None, !.password = None]

\* the config has a username or a password but not both, and no token
HalfPair(config) ==
    /\ ~TokenSet(config)
    /\ Truthy(config.username) # Truthy(config.password)

\* C26: a config with a token and a username with its password gives a
\* session in token mode, whose requests carry the header Authorization:
\* Bearer <token> and no basic credentials; a config with a username and no
\* password, or a password and no username, and no token is refused with
\* the error of a config that has no credential at all, and nothing is
\* registered.
C26_TokenFirst ==
    /\ (last.op = "add_device" /\ last.result # DuplicateDevice(last.device_id)) =>
          /\ (TokenSet(last.config) /\ PairSet(last.config)) =>
                /\ last.result.kind = "return"
                /\ devices[last.device_id].auth_method = "token"
                /\ devices[last.device_id].basic_auth = None
          /\ HalfPair(last.config) =>
                /\ last.result.kind = "raise"
                /\ last.result = FortiGateAPI(next_oid, last.device_id,
                                              WithoutPair(last.config))
                /\ last.device_id \notin DOMAIN devices
    /\ (last.op = "make_request" /\ TokenSet(devices[last.device_id].config)
                                 /\ PairSet(devices[last.device_id].config)) =>
          /\ last.out.sent # << >>
          /\ \A i \in 1..Len(last.out.sent) :
                BearerOnly(last.out.sent[i], devices[last.device_id].config)

\* C26 witness: a session built from a token and a username with its
\* password was answered on a request that carried the bearer header and no
\* basic credentials
C26_Witness ==
    /\ last.op = "make_request"
    /\ devices[last.device_id].config.api_token = Some("tok")
    /\ devices[last.device_id].config.username = Some("admin")
    /\ devices[last.device_id].config.password = Some("pw")
    /\ last.out.result.kind = "return"
    /\ last.out.sent[1].headers["Authorization"] = "Bearer tok"
    /\ last.out.sent[1].auth = None

\* the other representation of a reference: {"name": n} for the string n,
\* n for {"name": n}
OtherForm(entry) ==
    IF entry.t = "str" THEN JObj("name" :> entry)
    ELSE IF entry.t = "obj" /\ DOMAIN entry.v = {"name"} /\ entry.v["name"].t = "str"
    THEN entry.v["name"]
    ELSE entry

\* the policy with entry i of the list under key in its other representation
Rewritten(policy, key, i) ==
    [policy EXCEPT ![key] = JArr([@.v EXCEPT ![i] = OtherForm(@)])]

\* the keys whose lists hold references to address and service objects
ReferenceKeys == {"srcaddr", "dstaddr", "service"}

\* C27: writing one entry of srcaddr, dstaddr or service as the string n
\* instead of {"name": n}, or the reverse, changes neither the risk score,
\* nor the risk factors, nor the names taken from the list for display and
\* resolution.
C27_Representation ==
    Analyzed =>
        \A key \in ReferenceKeys \cap DOMAIN last.policy :
            \A i \in 1..Len(last.policy[key].v) :
                LET other == Rewritten(last.policy, key, i)
                IN  /\ other # last.policy
                    /\ analyze_policy_security(other) = last.out
                    /\ entry_names(other[key].v) = entry_names(last.policy[key].v)

\* C27 witness: a policy whose source holds the string all was analysed and
\* found open to every source
C27_Witness ==
    /\ Analyzed
    /\ "srcaddr" \in DOMAIN last.policy
    /\ last.policy["srcaddr"] = JArr(<<Ref("net1"), Str("all")>>)
    /\ last.out.risk_factors[1] = "Kaynak adres 'all' - Global erisim"

\* the risk factor of a violated check
FactorOf(check) ==
    CASE check = "source all" -> "Kaynak adres 'all' - Global erisim"
      [] check = "destination all" -> "Hedef adres 'all' - Genis hedef erisimi"
      [] check = "service ALL" -> "Servis 'ALL' - Tum portlar acik"
      [] check = "logging" -> "Log kaydi devre disi"
      [] check = "antivirus" -> "Antivirus profili yok"
      [] check = "IPS" -> "IPS sensoru yok"
      [] check = "WAN-to-LAN without IPS" -> "WAN'dan LAN'a erisim - IPS korumasi yok"

\* the entry of a policy without an evident risk
NoEvidentRisk == "Belirgin guvenlik riski tespit edilmedi"

\* C28: the list of risk factors returned with the score is never empty:
\* it holds the factor of every violated check (source all, destination
\* all, service ALL, logging, antivirus, IPS, WAN-to-LAN without IPS), once
\* and in this order, and it is the single entry 'no evident risk' exactly
\* when no check is violated, which is exactly when the score is 0.
C28_RiskFactors ==
    Analyzed =>
        LET violated == ViolatedChecks(last.policy)
        IN  /\ last.out.risk_factors # << >>
            /\ violated # << >> =>
                  last.out.risk_factors = [i \in 1..Len(violated) |-> FactorOf(violated[i])]
            /\ violated = << >> <=> last.out.risk_factors = <<NoEvidentRisk>>
            /\ violated = << >> <=> last.out.risk_score = 0

\* C28 witness: a policy that violates no check has the score 0 and the
\* single entry 'no evident risk'
C28_Witness ==
    /\ Analyzed
    /\ ViolatedChecks(last.policy) = << >>
    /\ last.out = [risk_score |-> 0, risk_factors |-> <<NoEvidentRisk>>]

\* the index of the first line equal to text at or after the index from
IndexFrom(lines, text, from) ==
    CHOOSE i \in from..Len(lines) :
        lines[i] = text /\ \A j \in from..(i - 1) : lines[j] # text

\* the lines under the heading of the resolved addresses of the section
\* that begins with title: those between the heading and the empty line
\* that ends the section
ResolvedLines(lines, title) ==
    LET heading == IndexFrom(lines, "* **Cozumlenen Adresler**:", IndexFrom(lines, title, 1))
        end == IndexFrom(lines, "", heading)
    IN  SubSeq(lines, heading + 1, end - 1)

\* the text begins with prefix
StartsWith(text, prefix) ==
    Len(text) >= Len(prefix) /\ SubSeq(text, 1, Len(prefix)) = prefix

\* the resolved lines of the section are one line per name of the list
\* under key, in order, each beginning with its name
OneLinePerName(key, title) ==
    LET names == entry_names(get_list(DetailPolicy, key))
        resolved == ResolvedLines(last.out.value, title)
    IN  /\ Len(resolved) = Len(names)
        /\ \A i \in 1..Len(names) : StartsWith(resolved[i], "  - " \o names[i] \o ": ")

\* C29: when an address collection is supplied to the detail of a policy,
\* every name of srcaddr and of dstaddr has exactly one line among the
\* resolved addresses of its section, its resolved value or the unresolved
\* mark, whatever fields the matching address object has.
C29_OneLine ==
    (Rendered /\ Supplied(last.address_objects)) =>
        /\ OneLinePerName("srcaddr", "## **Kaynak (Source)**")
        /\ OneLinePerName("dstaddr", "## **Hedef (Destination)**")

\* the connection test of the device, answered as in the latest call, gave True
Reachable(device_id) ==
    LET r == test_connection(devices[device_id], last.outcomes[device_id]).result
    IN  r.kind = "return" /\ r.value

\* C30: the answer of the health tool has one device_connections entry per
\* registered device, and its status is 'ok' only if the connection test of
\* every registered device returned True.
C30_Health ==
    last.op = "health" =>
        /\ DOMAIN last.out.device_connections = DOMAIN devices
        /\ last.out.status = "ok" => \A device_id \in DOMAIN devices : Reachable(device_id)

====
